---- MODULE Spec2Model ----
(***************************************************************************)
(* A model of the GTFS processing core of amtrak-map: the route merger     *)
(* (src/src/utils/routeMerger.ts), the route / schedule processor          *)
(* (src/src/utils/gtfsProcessor.ts), the feed loader and its provider, and *)
(* the train position and sun phase of src/src/utils/sunlight.ts.          *)
(*                                                                         *)
(*   SpecMerge, SpecRemerge   applyRouteMerges, once and twice in a row    *)
(*   SpecStops                haveIdenticalStops                           *)
(*   SpecRoutes               processRoutes                                *)
(*   SpecSchedules            processSchedules, validateProcessedSchedules *)
(*   SpecTime                 parseGTFSTime                                *)
(*   SpecPosition             getTrainPositionAtTime (sunlight.ts)         *)
(*   SpecPhase                calculateSunlightPhase (sunlight.ts)         *)
(*   SpecSimplify             simplifyShape                                *)
(*   SpecAxis                 determineDirectionAxis                       *)
(*   SpecCsv                  parseCSVLine, parseGTFSFile                  *)
(*   SpecLoad                 loadAllGTFSData, GTFSDataProvider.loadData   *)
(*   SpecOverlap              loadData, calls that overlap                 *)
(*   SpecSegments             calculateRouteSegmentColors (sunlight.ts)    *)
(*   SpecSunlight             SpecPosition or SpecSegments                 *)
(*   SpecCalls, SpecCallsFair simplifyShape, call by call                  *)
(*                                                                         *)
(* Each pure function is an operator computed the way the code computes    *)
(* it; each specification draws the function's inputs in its Init and      *)
(* applies the function step by step.                                      *)
(***************************************************************************)
EXTENDS Integers, Sequences, FiniteSets, TLC

VARIABLES
    \* ---- applyRouteMerges (routeMerger.ts) ----
    routes,          \* the routes array passed in (never written by the code)
    schedules,       \* Map<routeId, ProcessedTrip[]>, modified in place
    mergeGroups,     \* the merge-group list passed in
    routeIndex,      \* local Map<routeId, ProcessedRoute>
    routesToRemove,  \* local Set<routeId>
    groupIdx,        \* position of the for-of loop over mergeGroups
    mergeLog,        \* what the console said for each group of this call
    mergedRoutes,    \* the array returned by the call
    mergePc,         \* "idle" | "loop" | "done"
    calls,           \* number of applyRouteMerges calls started
    schedulesIn,     \* the schedule map as it was when the call started
    firstRoutes,     \* catalog returned by the first call
    firstSchedules,  \* schedule map left by the first call
    \* ---- haveIdenticalStops (routeMerger.ts) ----
    listA,           \* first argument (tripsA)
    listB,           \* second argument (tripsB)
    identical,       \* the value returned for these arguments
    \* ---- processRoutes (gtfsProcessor.ts) ----
    gtfsRoutes,      \* routes argument
    gtfsTrips,       \* trips argument
    gtfsShapes,      \* shapes argument
    gtfsStopTimes,   \* stopTimes argument
    routeIdx,        \* position of the for-of loop over routes
    processedRoutes, \* local array, returned at the end
    routeLog,        \* what the console said for each route
    routePc,         \* "idle" | "loop" | "done"
    runs,            \* number of processRoutes calls started
    firstProcessed,  \* the array returned by the first call
    \* ---- processSchedules, validateProcessedSchedules ----
    feedTrips,       \* trips argument
    feedStopTimes,   \* stopTimes argument
    stopTimeIndex,   \* local Map<trip_id, GTFSStopTime[]>
    schedulesByRoute,\* local Map<route_id, ProcessedSchedule[]>, returned
    tripIdx,         \* position of the for-of loop over trips
    schedLog,        \* what the console said for each trip
    schedPc,         \* "idle" | "loop" | "done" | "validated"
    warnings,        \* validateProcessedSchedules: the warnings counter
    offsetWarned,    \* trips named in a day-offset warning
    \* ---- parseGTFSTime (gtfsLoader) ----
    gtfsTime,        \* the time string of a stop_times.txt row
    arrivalParsed,   \* what parseGTFSTime returned for it
    timedStop,       \* the processed stop made from the row
    timePc,          \* "idle" | "call" | "parsed" | "thrown"
    \* ---- getTrainPositionAtTime (sunlight.ts) ----
    tripStops,       \* schedule.stops
    targetTime,      \* the instant asked for, in seconds
    position,        \* the result: <<>> is null, <<p>> is the position p
    positionPc,      \* "idle" | "call" | the return taken
    \* ---- calculateSunlightPhase (sunlight.ts) ----
    sunTimes,        \* what SunCalc.getTimes returned
    phaseTime,       \* the instant asked for
    sunPhase,        \* the phase returned
    phasePc,         \* "idle" | "call" | "done"
    \* ---- simplifyShape (gtfsProcessor.ts) ----
    shapePath,       \* the coordinates passed in
    pathTolerance,   \* the tolerance passed in
    simplified,      \* the coordinates returned
    simplifyPc,      \* "idle" | "call" | the return taken
    \* ---- determineDirectionAxis (gtfsProcessor.ts) ----
    axisPath,        \* the coordinates passed in
    axisResult,      \* the axis returned
    axisPc,          \* "idle" | "call" | the return taken
    \* ---- parseGTFSFile (gtfsLoader) ----
    csvText,         \* the text of the feed file
    csvRows,         \* the rows returned
    csvPc,           \* "idle" | "call" | the return taken
    \* ---- loadAllGTFSData, GTFSDataProvider.loadData ----
    tripsFile,       \* the rows of trips.txt on the server
    shapesWanted,    \* the loadShapes prop of the provider
    fetches,         \* for each feed file: "none" | "pending" | "ok" |
                     \* "failed" | "abandoned", in the current cycle
    requested,       \* the files requested in the current cycle, in order
    loaded,          \* what the loaders have returned in the current cycle
    loadPc,          \* what the cycle awaits, or how it ended
    cycle,           \* the number of load cycles started
    provider,        \* the React state of GTFSDataProvider
    \* ---- calculateRouteSegmentColors, mapShapeToSchedule (sunlight.ts) ----
    segmentStops,    \* schedule.stops
    shapeCoords,     \* shapeCoords argument, <<>> when none is given
    samplePoints,    \* samplePoints argument
    timePoints,      \* local: the path points with their times
    sampledPoints,   \* local: the resampled points
    segments,        \* the array returned
    segmentsPc,      \* "idle" | "call" | the return taken
    \* ---- simplifyShape, call by call (gtfsProcessor.ts) ----
    callPath,        \* the coordinates of the outermost call
    callTolerance,   \* its tolerance
    callStack,       \* the calls that have not returned, outermost first
    returned,        \* <<>> or <<the value the last call returned>>
    deepest,         \* the largest number of nested recursive calls so far
    callPc,          \* "idle", "running", "done"
    \* ---- GTFSDataProvider, load cycles that overlap (part_000) ----
    servedTrips,     \* the rows of trips.txt on the server
    inFlight,        \* the calls of loadData in the order they were made
    shown            \* the React state of GTFSDataProvider

mergeVars == <<routes, schedules, mergeGroups, routeIndex, routesToRemove,
               groupIdx, mergeLog, mergedRoutes, mergePc, calls,
               schedulesIn, firstRoutes, firstSchedules>>

stopsVars == <<listA, listB, identical>>

routeVars == <<gtfsRoutes, gtfsTrips, gtfsShapes, gtfsStopTimes, routeIdx,
               processedRoutes, routeLog, routePc, runs, firstProcessed>>

schedVars == <<feedTrips, feedStopTimes, stopTimeIndex, schedulesByRoute,
               tripIdx, schedLog, schedPc, warnings, offsetWarned>>

timeVars == <<gtfsTime, arrivalParsed, timedStop, timePc>>

positionVars == <<tripStops, targetTime, position, positionPc>>

phaseVars == <<sunTimes, phaseTime, sunPhase, phasePc>>

simplifyVars == <<shapePath, pathTolerance, simplified, simplifyPc>>

axisVars == <<axisPath, axisResult, axisPc>>

csvVars == <<csvText, csvRows, csvPc>>

loadVars == <<tripsFile, shapesWanted, fetches, requested, loaded, loadPc,
              cycle, provider>>

segmentVars == <<segmentStops, shapeCoords, samplePoints, timePoints,
                 sampledPoints, segments, segmentsPc>>

recursionVars ==
    <<callPath, callTolerance, callStack, returned, deepest, callPc>>

overlapVars == <<servedTrips, inFlight, shown>>

vars ==
    <<mergeVars, stopsVars, routeVars, schedVars, timeVars, positionVars,
      phaseVars, simplifyVars, axisVars, csvVars, loadVars, segmentVars,
      recursionVars, overlapVars>>

\* What an action of one function leaves alone: the variables of the others.
besidesMerge ==
    <<stopsVars, routeVars, schedVars, timeVars, positionVars, phaseVars,
      simplifyVars, axisVars, csvVars, loadVars, segmentVars,
      recursionVars, overlapVars>>

besidesStops ==
    <<mergeVars, routeVars, schedVars, timeVars, positionVars, phaseVars,
      simplifyVars, axisVars, csvVars, loadVars, segmentVars,
      recursionVars, overlapVars>>

besidesRoutes ==
    <<mergeVars, stopsVars, schedVars, timeVars, positionVars, phaseVars,
      simplifyVars, axisVars, csvVars, loadVars, segmentVars,
      recursionVars, overlapVars>>

besidesSchedules ==
    <<mergeVars, stopsVars, routeVars, timeVars, positionVars, phaseVars,
      simplifyVars, axisVars, csvVars, loadVars, segmentVars,
      recursionVars, overlapVars>>

besidesPosition ==
    <<mergeVars, stopsVars, routeVars, schedVars, timeVars, phaseVars,
      simplifyVars, axisVars, csvVars, loadVars, segmentVars,
      recursionVars, overlapVars>>

besidesPhase ==
    <<mergeVars, stopsVars, routeVars, schedVars, timeVars, positionVars,
      simplifyVars, axisVars, csvVars, loadVars, segmentVars,
      recursionVars, overlapVars>>

besidesSimplify ==
    <<mergeVars, stopsVars, routeVars, schedVars, timeVars, positionVars,
      phaseVars, axisVars, csvVars, loadVars, segmentVars, recursionVars,
      overlapVars>>

besidesAxis ==
    <<mergeVars, stopsVars, routeVars, schedVars, timeVars, positionVars,
      phaseVars, simplifyVars, csvVars, loadVars, segmentVars,
      recursionVars, overlapVars>>

besidesCsv ==
    <<mergeVars, stopsVars, routeVars, schedVars, timeVars, positionVars,
      phaseVars, simplifyVars, axisVars, loadVars, segmentVars,
      recursionVars, overlapVars>>

besidesLoad ==
    <<mergeVars, stopsVars, routeVars, schedVars, timeVars, positionVars,
      phaseVars, simplifyVars, axisVars, csvVars, segmentVars,
      recursionVars, overlapVars>>

besidesSegments ==
    <<mergeVars, stopsVars, routeVars, schedVars, timeVars, positionVars,
      phaseVars, simplifyVars, axisVars, csvVars, loadVars, recursionVars,
      overlapVars>>

besidesRecursion ==
    <<mergeVars, stopsVars, routeVars, schedVars, timeVars, positionVars,
      phaseVars, simplifyVars, axisVars, csvVars, loadVars, segmentVars,
      overlapVars>>

besidesOverlap ==
    <<mergeVars, stopsVars, routeVars, schedVars, timeVars, positionVars,
      phaseVars, simplifyVars, axisVars, csvVars, loadVars, segmentVars,
      recursionVars>>

besidesTime ==
    <<mergeVars, stopsVars, routeVars, schedVars, positionVars, phaseVars,
      simplifyVars, axisVars, csvVars, loadVars, segmentVars,
      recursionVars, overlapVars>>

-----------------------------------------------------------------------------
(* Generic helpers: JavaScript arrays are sequences.                       *)

Range(s) == {s[i] : i \in 1..Len(s)}

RECURSIVE Dedup(_)
\* new Set(array) then Array.from: first occurrence kept, insertion order.
Dedup(s) ==
    IF s = <<>> THEN <<>>
    ELSE LET init == Dedup(SubSeq(s, 1, Len(s) - 1))
             x    == s[Len(s)]
         IN  IF x \in Range(init) THEN init ELSE Append(init, x)

RECURSIVE Flatten(_)
Flatten(ss) == IF ss = <<>> THEN <<>> ELSE Head(ss) \o Flatten(Tail(ss))

RECURSIVE Digits(_)
\* The decimal text of a train number: trip_short_name is a string of digits.
Digits(n) == IF n < 10 THEN <<n>> ELSE Append(Digits(n \div 10), n % 10)

RECURSIVE LexLess(_, _)
\* String comparison by code units, as Array.prototype.sort() without a
\* comparator does it: "48" < "5" < "6".
LexLess(a, b) ==
    IF b = <<>> THEN FALSE
    ELSE IF a = <<>> THEN TRUE
    ELSE IF Head(a) # Head(b) THEN Head(a) < Head(b)
    ELSE LexLess(Tail(a), Tail(b))

RECURSIVE InsertSorted(_, _, _)
\* key is a function from elements to their sort key (a sequence of numbers).
InsertSorted(x, s, key) ==
    IF s = <<>> THEN <<x>>
    ELSE IF LexLess(key[x], key[Head(s)]) THEN <<x>> \o s
    ELSE <<Head(s)>> \o InsertSorted(x, Tail(s), key)

RECURSIVE SortByKey(_, _)
\* Array.prototype.sort is stable: an element goes after the earlier elements
\* it is not less than.
SortByKey(s, key) ==
    IF s = <<>> THEN <<>>
    ELSE InsertSorted(s[Len(s)], SortByKey(SubSeq(s, 1, Len(s) - 1), key), key)

-----------------------------------------------------------------------------
(* Text: a JavaScript string is the sequence of its characters.            *)

DigitChars == <<"0", "1", "2", "3", "4", "5", "6", "7", "8", "9">>

IsDigit(c) == c \in Range(DigitChars)

DigitValue(c) == (CHOOSE i \in 1..10 : DigitChars[i] = c) - 1

\* Not-a-number: what parseInt returns for a text that starts with no digit.
\* Every number parsed from digits is >= 0, so -1 is free to stand for it.
NaN == -1

RECURSIVE split(_, _)
\* String.prototype.split(separator): the pieces between the separators;
\* the empty text gives one empty piece.
split(text, separator) ==
    IF \A i \in 1..Len(text) : text[i] # separator THEN <<text>>
    ELSE LET k == CHOOSE k \in 1..Len(text) :
                      /\ text[k] = separator
                      /\ \A j \in 1..(k - 1) : text[j] # separator
         IN  <<SubSeq(text, 1, k - 1)>>
                 \o split(SubSeq(text, k + 1, Len(text)), separator)

RECURSIVE join(_, _)
\* Array.prototype.join(separator).
join(parts, separator) ==
    IF parts = <<>> THEN <<>>
    ELSE IF Len(parts) = 1 THEN parts[1]
    ELSE parts[1] \o <<separator>> \o join(Tail(parts), separator)

RECURSIVE parseIntFrom(_, _)
parseIntFrom(text, value) ==
    IF text = <<>> \/ ~IsDigit(Head(text)) THEN value
    ELSE parseIntFrom(Tail(text), 10 * value + DigitValue(Head(text)))

\* parseInt(text, 10) of a text without blanks and signs: the number written
\* by the digits the text starts with, NaN when it starts with none.
parseInt(text) ==
    IF text = <<>> \/ ~IsDigit(text[1]) THEN NaN ELSE parseIntFrom(text, 0)

\* The text of a time in a feed file: two digits for each number, colons
\* between them.
TwoDigits(n) == <<DigitChars[(n \div 10) + 1], DigitChars[(n % 10) + 1]>>

GTFSTimeText(numbers) ==
    join([i \in 1..Len(numbers) |-> TwoDigits(numbers[i])], ":")

-----------------------------------------------------------------------------
(* JavaScript Map<K, V>: a function whose domain is the set of keys.        *)

MapHas(m, k) == k \in DOMAIN m

MapGetOr(m, k, default) == IF k \in DOMAIN m THEN m[k] ELSE default

MapSet(m, k, v) == [x \in DOMAIN m \cup {k} |-> IF x = k THEN v ELSE m[x]]

MapDelete(m, k) == [x \in DOMAIN m \ {k} |-> m[x]]

EmptyMap == [x \in {} |-> 0]

-----------------------------------------------------------------------------
(* Each specification runs one function; the variables of the others keep  *)
(* the values they have when that function has not been called.            *)

MergeIdle ==
    /\ routes = <<>> /\ schedules = EmptyMap /\ mergeGroups = <<>>
    /\ routeIndex = EmptyMap /\ routesToRemove = {} /\ groupIdx = 0
    /\ mergeLog = <<>> /\ mergedRoutes = <<>> /\ mergePc = "idle"
    /\ calls = 0 /\ schedulesIn = EmptyMap /\ firstRoutes = <<>>
    /\ firstSchedules = EmptyMap

StopsIdle == listA = <<>> /\ listB = <<>> /\ identical = TRUE

RoutesIdle ==
    /\ gtfsRoutes = <<>> /\ gtfsTrips = <<>> /\ gtfsShapes = <<>>
    /\ gtfsStopTimes = <<>> /\ routeIdx = 0 /\ processedRoutes = <<>>
    /\ routeLog = <<>> /\ routePc = "idle" /\ runs = 0
    /\ firstProcessed = <<>>

SchedIdle ==
    /\ feedTrips = <<>> /\ feedStopTimes = <<>> /\ stopTimeIndex = EmptyMap
    /\ schedulesByRoute = EmptyMap /\ tripIdx = 0 /\ schedLog = <<>>
    /\ schedPc = "idle" /\ warnings = 0 /\ offsetWarned = {}

TimeIdle ==
    /\ gtfsTime = <<>> /\ arrivalParsed = <<>> /\ timedStop = <<>>
    /\ timePc = "idle"

PositionIdle ==
    /\ tripStops = <<>> /\ targetTime = 0 /\ position = <<>>
    /\ positionPc = "idle"

PhaseIdle ==
    /\ sunTimes = <<>> /\ phaseTime = 0 /\ sunPhase = "" /\ phasePc = "idle"

SimplifyIdle ==
    /\ shapePath = <<>> /\ pathTolerance = <<0, 1>> /\ simplified = <<>>
    /\ simplifyPc = "idle"

AxisIdle ==
    /\ axisPath = <<>> /\ axisResult = "" /\ axisPc = "idle"

CsvIdle ==
    /\ csvText = <<>> /\ csvRows = <<>> /\ csvPc = "idle"

LoadIdle ==
    /\ tripsFile = <<>> /\ shapesWanted = FALSE /\ fetches = EmptyMap
    /\ requested = <<>> /\ loaded = <<>> /\ loadPc = "idle" /\ cycle = 0
    /\ provider = <<>>

SegmentsIdle ==
    /\ segmentStops = <<>> /\ shapeCoords = <<>> /\ samplePoints = 0
    /\ timePoints = <<>> /\ sampledPoints = <<>> /\ segments = <<>>
    /\ segmentsPc = "idle"

RecursionIdle ==
    /\ callPath = <<>> /\ callTolerance = <<0, 1>> /\ callStack = <<>>
    /\ returned = <<>> /\ deepest = 0 /\ callPc = "idle"

OverlapIdle ==
    servedTrips = <<>> /\ inFlight = <<>> /\ shown = <<>>

IdleBesidesMerge ==
    StopsIdle /\ RoutesIdle /\ SchedIdle /\ TimeIdle /\ PositionIdle /\
    PhaseIdle /\ SimplifyIdle /\ AxisIdle /\ CsvIdle /\ LoadIdle /\
    SegmentsIdle /\ RecursionIdle /\ OverlapIdle

IdleBesidesStops ==
    MergeIdle /\ RoutesIdle /\ SchedIdle /\ TimeIdle /\ PositionIdle /\
    PhaseIdle /\ SimplifyIdle /\ AxisIdle /\ CsvIdle /\ LoadIdle /\
    SegmentsIdle /\ RecursionIdle /\ OverlapIdle

IdleBesidesRoutes ==
    MergeIdle /\ StopsIdle /\ SchedIdle /\ TimeIdle /\ PositionIdle /\
    PhaseIdle /\ SimplifyIdle /\ AxisIdle /\ CsvIdle /\ LoadIdle /\
    SegmentsIdle /\ RecursionIdle /\ OverlapIdle

IdleBesidesSchedules ==
    MergeIdle /\ StopsIdle /\ RoutesIdle /\ TimeIdle /\ PositionIdle /\
    PhaseIdle /\ SimplifyIdle /\ AxisIdle /\ CsvIdle /\ LoadIdle /\
    SegmentsIdle /\ RecursionIdle /\ OverlapIdle

IdleBesidesPosition ==
    MergeIdle /\ StopsIdle /\ RoutesIdle /\ SchedIdle /\ TimeIdle /\
    PhaseIdle /\ SimplifyIdle /\ AxisIdle /\ CsvIdle /\ LoadIdle /\
    SegmentsIdle /\ RecursionIdle /\ OverlapIdle

IdleBesidesPhase ==
    MergeIdle /\ StopsIdle /\ RoutesIdle /\ SchedIdle /\ TimeIdle /\
    PositionIdle /\ SimplifyIdle /\ AxisIdle /\ CsvIdle /\ LoadIdle /\
    SegmentsIdle /\ RecursionIdle /\ OverlapIdle

IdleBesidesSimplify ==
    MergeIdle /\ StopsIdle /\ RoutesIdle /\ SchedIdle /\ TimeIdle /\
    PositionIdle /\ PhaseIdle /\ AxisIdle /\ CsvIdle /\ LoadIdle /\
    SegmentsIdle /\ RecursionIdle /\ OverlapIdle

IdleBesidesAxis ==
    MergeIdle /\ StopsIdle /\ RoutesIdle /\ SchedIdle /\ TimeIdle /\
    PositionIdle /\ PhaseIdle /\ SimplifyIdle /\ CsvIdle /\ LoadIdle /\
    SegmentsIdle /\ RecursionIdle /\ OverlapIdle

IdleBesidesCsv ==
    MergeIdle /\ StopsIdle /\ RoutesIdle /\ SchedIdle /\ TimeIdle /\
    PositionIdle /\ PhaseIdle /\ SimplifyIdle /\ AxisIdle /\ LoadIdle /\
    SegmentsIdle /\ RecursionIdle /\ OverlapIdle

IdleBesidesLoad ==
    MergeIdle /\ StopsIdle /\ RoutesIdle /\ SchedIdle /\ TimeIdle /\
    PositionIdle /\ PhaseIdle /\ SimplifyIdle /\ AxisIdle /\ CsvIdle /\
    SegmentsIdle /\ RecursionIdle /\ OverlapIdle

IdleBesidesSegments ==
    MergeIdle /\ StopsIdle /\ RoutesIdle /\ SchedIdle /\ TimeIdle /\
    PositionIdle /\ PhaseIdle /\ SimplifyIdle /\ AxisIdle /\ CsvIdle /\
    LoadIdle /\ RecursionIdle /\ OverlapIdle

IdleBesidesRecursion ==
    MergeIdle /\ StopsIdle /\ RoutesIdle /\ SchedIdle /\ TimeIdle /\
    PositionIdle /\ PhaseIdle /\ SimplifyIdle /\ AxisIdle /\ CsvIdle /\
    LoadIdle /\ SegmentsIdle /\ OverlapIdle

IdleBesidesOverlap ==
    MergeIdle /\ StopsIdle /\ RoutesIdle /\ SchedIdle /\ TimeIdle /\
    PositionIdle /\ PhaseIdle /\ SimplifyIdle /\ AxisIdle /\ CsvIdle /\
    LoadIdle /\ SegmentsIdle /\ RecursionIdle

IdleBesidesTime ==
    MergeIdle /\ StopsIdle /\ RoutesIdle /\ SchedIdle /\ PositionIdle /\
    PhaseIdle /\ SimplifyIdle /\ AxisIdle /\ CsvIdle /\ LoadIdle /\
    SegmentsIdle /\ RecursionIdle /\ OverlapIdle

-----------------------------------------------------------------------------
(* routeMerger.ts                                                          *)

\* A RouteMergeGroup without primaryRouteId: the field is undefined.  An
\* empty string is falsy too and takes the same branches.
NoPrimary == ""

StopIdKey(ids) == [x \in Range(ids) |-> <<x>>]

TrainNumberKey(nums) == [x \in Range(nums) |-> Digits(x)]

TripStopIds(trip) == [i \in 1..Len(trip.stops) |-> trip.stops[i].stopId]

getUniqueStopIds(trips) ==
    LET ids == Dedup(Flatten([i \in 1..Len(trips) |-> TripStopIds(trips[i])]))
    IN  SortByKey(ids, StopIdKey(ids))

\* haveIdenticalStops comparing the number of unique stop ids only.
haveIdenticalStops_SameCount(tripsA, tripsB) ==
    Len(getUniqueStopIds(tripsA)) = Len(getUniqueStopIds(tripsB))

haveIdenticalStops(tripsA, tripsB) ==
    LET stopsA == getUniqueStopIds(tripsA)
        stopsB == getUniqueStopIds(tripsB)
    IN  IF Len(stopsA) # Len(stopsB) THEN FALSE
        ELSE \A i \in 1..Len(stopsA) : stopsA[i] = stopsB[i]

\* validateMergeGroup without the check that every route has trips.
validateMergeGroup_NoTripCheck(routeIds, sched) ==
    IF Len(routeIds) < 2 THEN TRUE
    ELSE \A i \in 2..Len(routeIds) :
             haveIdenticalStops(MapGetOr(sched, routeIds[1], <<>>),
                                MapGetOr(sched, routeIds[i], <<>>))

validateMergeGroup(routeIds, sched) ==
    IF Len(routeIds) < 2 THEN TRUE
    ELSE LET allTrips == [i \in 1..Len(routeIds) |->
                             MapGetOr(sched, routeIds[i], <<>>)]
         IN  IF \E i \in 1..Len(allTrips) : Len(allTrips[i]) = 0 THEN FALSE
             ELSE \A i \in 2..Len(allTrips) :
                      haveIdenticalStops(allTrips[1], allTrips[i])

\* The primary route taken to be the first route whatever is designated.
FindPrimaryRoute_AlwaysFirst(rs, primaryRouteId) == rs[1]

\* routes.find(r => r.routeId === primaryRouteId) || routes[0]
FindPrimaryRoute(rs, primaryRouteId) ==
    IF primaryRouteId # NoPrimary
         /\ \E i \in 1..Len(rs) : rs[i].routeId = primaryRouteId
    THEN rs[CHOOSE i \in 1..Len(rs) :
                /\ rs[i].routeId = primaryRouteId
                /\ \A j \in 1..(i - 1) : rs[j].routeId # primaryRouteId]
    ELSE rs[1]

mergeRouteObjects(rs, mergedName, primaryRouteId) ==
    LET primaryRoute == FindPrimaryRoute(rs, primaryRouteId)
        allTrainNumbers ==
            Dedup(Flatten([i \in 1..Len(rs) |-> rs[i].routeNumbers]))
        allShapeIds ==
            Dedup(SelectSeq(Flatten([i \in 1..Len(rs) |-> rs[i].shapeIds]),
                            LAMBDA id : id # ""))
        allDirectionOptions ==
            Dedup(Flatten([i \in 1..Len(rs) |-> rs[i].directionOptions]))
    IN  [routeId          |-> primaryRoute.routeId,
         routeName        |-> mergedName,
         routeNumbers     |-> SortByKey(allTrainNumbers,
                                        TrainNumberKey(allTrainNumbers)),
         directionAxis    |-> primaryRoute.directionAxis,
         directionOptions |-> allDirectionOptions,
         shapeIds         |-> allShapeIds,
         color            |-> primaryRoute.color,
         url              |-> primaryRoute.url,
         category         |-> primaryRoute.category]

Reassign(trips, primaryRouteId) ==
    [i \in 1..Len(trips) |-> [trips[i] EXCEPT !.routeId = primaryRouteId]]

RECURSIVE mergeSchedulesLoop(_, _, _, _, _)
\* The for-of loop of mergeSchedules from position i on: the pair
\* <<schedules, mergedTrips>> when the loop ends.
mergeSchedulesLoop(sched, routeIds, primaryRouteId, i, mergedTrips) ==
    IF i > Len(routeIds) THEN <<sched, mergedTrips>>
    ELSE LET routeId    == routeIds[i]
             routeTrips == MapGetOr(sched, routeId, <<>>)
             pushed     == mergedTrips \o Reassign(routeTrips, primaryRouteId)
             sched2     == IF routeId # primaryRouteId
                           THEN MapDelete(sched, routeId) ELSE sched
         IN  mergeSchedulesLoop(sched2, routeIds, primaryRouteId, i + 1, pushed)

\* mergeSchedules without the removal of the non-primary buckets.
mergeSchedules_KeepsBuckets(sched, routeIds, primaryRouteId) ==
    MapSet(sched, primaryRouteId,
           mergeSchedulesLoop(sched, routeIds, primaryRouteId, 1, <<>>)[2])

mergeSchedules(sched, routeIds, primaryRouteId) ==
    LET end == mergeSchedulesLoop(sched, routeIds, primaryRouteId, 1, <<>>)
    IN  MapSet(end[1], primaryRouteId, end[2])

\* routeIds.map(id => routeIndex.get(id)).filter(r => r !== undefined)
GroupRoutes(index, routeIds) ==
    LET found == SelectSeq(routeIds, LAMBDA id : MapHas(index, id))
    IN  [i \in 1..Len(found) |-> index[found[i]]]

\* primaryRouteId || routeIds[0]
PrimaryOf(group) ==
    IF group.primaryRouteId # NoPrimary THEN group.primaryRouteId
    ELSE group.routeIds[1]

NonPrimaryIds(group) == Range(group.routeIds) \ {PrimaryOf(group)}

\* new Map(routes.map(r => [r.routeId, r])): a later entry overwrites.
BuildRouteIndex(rs) ==
    [id \in {rs[i].routeId : i \in 1..Len(rs)} |->
        rs[CHOOSE i \in 1..Len(rs) :
              /\ rs[i].routeId = id
              /\ \A j \in (i + 1)..Len(rs) : rs[j].routeId # id]]

\* Lines 283-292: the filter, then the replacement by the index's entries.
FinishMerge(rs, index, toRemove) ==
    LET kept == SelectSeq(rs, LAMBDA r : r.routeId \notin toRemove)
    IN  [i \in 1..Len(kept) |->
            IF MapHas(index, kept[i].routeId) THEN index[kept[i].routeId]
            ELSE kept[i]]

-----------------------------------------------------------------------------
(* Inputs of applyRouteMerges.                                             *)

MaxGroups == 1       \* merge groups in one list
MaxGroupSize == 2    \* route ids in one merge group
MaxCalls == 2        \* applyRouteMerges calls in a row on the same data

\* Route ids of DEFAULT_MERGE_GROUPS.
RouteIds == {"42957", "72", "56"}

\* The order of the routes in the feed.
FeedOrder == <<"42957", "72", "56">>

\* Train numbers are strings of digits; 48 stands for "48".
ProcessedRouteOf(id) ==
    CASE id = "42957" ->
           [routeId |-> id, routeName |-> "Illinois Zephyr",
            routeNumbers |-> <<6, 48>>, directionAxis |-> "east-west",
            directionOptions |-> <<"westbound", "eastbound">>,
            shapeIds |-> <<"s1">>, color |-> "c1", url |-> "u1",
            category |-> "State-Supported"]
      [] id = "72" ->
           [routeId |-> id, routeName |-> "Carl Sandburg",
            routeNumbers |-> <<48, 5>>, directionAxis |-> "north-south",
            directionOptions |-> <<"northbound">>,
            shapeIds |-> <<"", "s2", "s1">>, color |-> "c2", url |-> "u2",
            category |-> "Long-Distance"]
      [] OTHER ->
           [routeId |-> id, routeName |-> "Illini",
            routeNumbers |-> <<5>>, directionAxis |-> "north-south",
            directionOptions |-> <<"southbound", "northbound">>,
            shapeIds |-> <<"s3">>, color |-> "c3", url |-> "u3",
            category |-> "State-Supported"]

\* The stop lists of the trips of one schedule bucket.  Stop ids are station
\* codes; k stands for the k-th code in code-unit order.  The first two
\* visit the same set of stops, the third another set.
StopPatterns ==
    << << <<1, 2>> >>,
       << <<2, 1, 2>>, <<1>> >>,
       << <<1, 3>> >> >>

ProcessedTripOf(id, k, stopIds) ==
    [tripId |-> <<id, k>>, routeId |-> id, trainNumber |-> k,
     stops |-> [i \in 1..Len(stopIds) |-> [stopId |-> stopIds[i]]]]

BucketOf(id, pattern) ==
    [k \in 1..Len(pattern) |-> ProcessedTripOf(id, k, pattern[k])]

\* bucket[id] = 0: the map has no key id; else the pattern of its trips.
ScheduleMapOf(bucket) ==
    [id \in {x \in RouteIds : bucket[x] # 0} |->
        BucketOf(id, StopPatterns[bucket[id]])]

CatalogOf(present) ==
    LET ids == SelectSeq(FeedOrder, LAMBDA id : id \in present)
    IN  [i \in 1..Len(ids) |-> ProcessedRouteOf(ids[i])]

MergedNames == <<"Illinois Zephyr / Carl Sandburg", "Illini / Saluki",
                 "Merged 3", "Merged 4">>

GroupRouteIds ==
    UNION {[1..n -> RouteIds] : n \in 2..MaxGroupSize}

\* The groups that may stand at position i of a merge-group list.
MergeGroupsAt(i) ==
    {[routeIds |-> ids, mergedName |-> MergedNames[i], primaryRouteId |-> p] :
        ids \in GroupRouteIds, p \in RouteIds \cup {NoPrimary}}

-----------------------------------------------------------------------------
(* applyRouteMerges as a state machine: one step per merge group, then the *)
(* return.                                                                 *)

InitCall(rs, sched, groups) ==
    /\ routes = rs
    /\ schedules = sched
    /\ mergeGroups = groups
    /\ routeIndex = BuildRouteIndex(rs)
    /\ routesToRemove = {}
    /\ groupIdx = 0
    /\ mergeLog = <<>>
    /\ mergedRoutes = <<>>
    /\ mergePc = "loop"
    /\ calls = 1
    /\ schedulesIn = sched
    /\ firstRoutes = <<>>
    /\ firstSchedules = EmptyMap
    /\ IdleBesidesMerge

\* Lines 246-251: fewer than two of the group's routes are in the index.
MergeSkipFound(group) ==
    /\ mergePc = "loop"
    /\ Len(GroupRoutes(routeIndex, group.routeIds)) < 2
    /\ mergeLog' = Append(mergeLog, [said |-> "found-too-few",
                                     mergedName |-> group.mergedName])
    /\ groupIdx' = groupIdx + 1
    /\ UNCHANGED <<routes, schedules, mergeGroups, routeIndex, routesToRemove,
                   mergedRoutes, mergePc, calls, schedulesIn, firstRoutes,
                   firstSchedules, besidesMerge>>

\* Lines 253-259: the validation fails.
MergeSkipInvalid(group) ==
    /\ mergePc = "loop"
    /\ Len(GroupRoutes(routeIndex, group.routeIds)) >= 2
    /\ ~validateMergeGroup(group.routeIds, schedules)
    /\ mergeLog' = Append(mergeLog, [said |-> "different-stops",
                                     mergedName |-> group.mergedName])
    /\ groupIdx' = groupIdx + 1
    /\ UNCHANGED <<routes, schedules, mergeGroups, routeIndex, routesToRemove,
                   mergedRoutes, mergePc, calls, schedulesIn, firstRoutes,
                   firstSchedules, besidesMerge>>

\* Lines 261-280: the group is merged.  The console names the route ids, the
\* merged name and the primary id.
MergeApply(group) ==
    /\ mergePc = "loop"
    /\ Len(GroupRoutes(routeIndex, group.routeIds)) >= 2
    /\ validateMergeGroup(group.routeIds, schedules)
    /\ LET primary == PrimaryOf(group)
           mergedRoute ==
               mergeRouteObjects(GroupRoutes(routeIndex, group.routeIds),
                                 group.mergedName, primary)
       IN  /\ routeIndex' = MapSet(routeIndex, primary, mergedRoute)
           /\ schedules' = mergeSchedules(schedules, group.routeIds, primary)
           /\ routesToRemove' = routesToRemove \cup NonPrimaryIds(group)
           /\ mergeLog' = Append(mergeLog,
                                 [said |-> "merging",
                                  mergedName |-> group.mergedName,
                                  routeIds |-> group.routeIds,
                                  primary |-> primary])
    /\ groupIdx' = groupIdx + 1
    /\ UNCHANGED <<routes, mergeGroups, mergedRoutes, mergePc, calls,
                   schedulesIn, firstRoutes, firstSchedules, besidesMerge>>

\* Lines 283-298: the loop is over; the filtered, updated array is returned.
MergeReturn ==
    /\ mergePc = "loop"
    /\ mergedRoutes' = FinishMerge(routes, routeIndex, routesToRemove)
    /\ mergePc' = "done"
    /\ UNCHANGED <<routes, schedules, mergeGroups, routeIndex, routesToRemove,
                   groupIdx, mergeLog, calls, schedulesIn, firstRoutes,
                   firstSchedules, besidesMerge>>

(* One call, on any catalog, schedule map and merge-group list.  The list   *)
(* is read group by group: each group is drawn when the loop reaches it,    *)
(* and the list ends after at most MaxGroups groups.  mergeGroups is not    *)
(* used; mergeLog keeps what the console said of each group.                *)
InitMerge ==
    \E present \in SUBSET RouteIds :
        \E bucket \in [RouteIds -> 0..Len(StopPatterns)] :
            InitCall(CatalogOf(present), ScheduleMapOf(bucket), <<>>)

MergeSkipsFound ==
    /\ groupIdx < MaxGroups
    /\ \E group \in MergeGroupsAt(groupIdx + 1) : MergeSkipFound(group)

MergeSkipsInvalid ==
    /\ groupIdx < MaxGroups
    /\ \E group \in MergeGroupsAt(groupIdx + 1) : MergeSkipInvalid(group)

MergeApplies ==
    /\ groupIdx < MaxGroups
    /\ \E group \in MergeGroupsAt(groupIdx + 1) : MergeApply(group)

NextMerge ==
    \/ MergeSkipsFound
    \/ MergeSkipsInvalid
    \/ MergeApplies
    \/ MergeReturn

SpecMerge == InitMerge /\ [][NextMerge]_vars

(* Two calls in a row with one and the same merge-group list, which is    *)
(* fixed when the first call starts.                                       *)
MergeGroupLists ==
    UNION {{gs \in [1..n -> UNION {MergeGroupsAt(i) : i \in 1..n}] :
               \A i \in 1..n : gs[i] \in MergeGroupsAt(i)} : n \in 0..MaxGroups}

InitRemerge ==
    \E present \in SUBSET RouteIds :
        \E bucket \in [RouteIds -> 0..Len(StopPatterns)] :
            \E groups \in MergeGroupLists :
                InitCall(CatalogOf(present), ScheduleMapOf(bucket), groups)

ListSkipsFound ==
    /\ groupIdx < Len(mergeGroups)
    /\ MergeSkipFound(mergeGroups[groupIdx + 1])

ListSkipsInvalid ==
    /\ groupIdx < Len(mergeGroups)
    /\ MergeSkipInvalid(mergeGroups[groupIdx + 1])

ListApplies ==
    /\ groupIdx < Len(mergeGroups)
    /\ MergeApply(mergeGroups[groupIdx + 1])

ListReturn ==
    /\ groupIdx = Len(mergeGroups)
    /\ MergeReturn

\* The caller runs applyRouteMerges again, with the same merge-group list,
\* on the catalog and the schedule map the call before produced.
MergeAgain ==
    /\ mergePc = "done"
    /\ calls < MaxCalls
    /\ routes' = mergedRoutes
    /\ routeIndex' = BuildRouteIndex(mergedRoutes)
    /\ routesToRemove' = {}
    /\ groupIdx' = 0
    /\ mergeLog' = <<>>
    /\ mergedRoutes' = <<>>
    /\ mergePc' = "loop"
    /\ calls' = calls + 1
    /\ schedulesIn' = schedules
    /\ firstRoutes' = IF calls = 1 THEN mergedRoutes ELSE firstRoutes
    /\ firstSchedules' = IF calls = 1 THEN schedules ELSE firstSchedules
    /\ UNCHANGED <<schedules, mergeGroups, besidesMerge>>

NextRemerge ==
    \/ ListSkipsFound
    \/ ListSkipsInvalid
    \/ ListApplies
    \/ ListReturn
    \/ MergeAgain

SpecRemerge == InitRemerge /\ [][NextRemerge]_vars

\* C1: after the second of two calls with the same merge-group list, the
\* returned catalog and the schedule map are those the first call left.
C1_MergeIdempotent ==
    (mergePc = "done" /\ calls = 2) =>
        /\ mergedRoutes = firstRoutes
        /\ schedules = firstSchedules

\* No group of the list names a route id twice.
DistinctIdsInGroups ==
    \A g \in 1..Len(mergeGroups) :
        \A i, j \in 1..Len(mergeGroups[g].routeIds) :
            i # j => mergeGroups[g].routeIds[i] # mergeGroups[g].routeIds[j]

\* The second call changes nothing when no group names a route id twice.
MergeIdempotentForDistinctIds ==
    DistinctIdsInGroups => C1_MergeIdempotent

-----------------------------------------------------------------------------
(* Claims about the route merger.                                          *)

LastSaid == IF mergeLog = <<>> THEN "nothing" ELSE mergeLog[Len(mergeLog)].said

\* The set of stop ids the trips of a bucket visit.
VisitedStops(trips) ==
    UNION {{trips[i].stops[j].stopId : j \in 1..Len(trips[i].stops)} :
              i \in 1..Len(trips)}

TripsOf(sched, id) == MapGetOr(sched, id, <<>>)

\* A member without trips, or two members that visit different stop sets.
MemberGap(group, sched) ==
    \/ \E i \in 1..Len(group.routeIds) : TripsOf(sched, group.routeIds[i]) = <<>>
    \/ \E i, j \in 1..Len(group.routeIds) :
          VisitedStops(TripsOf(sched, group.routeIds[i]))
              # VisitedStops(TripsOf(sched, group.routeIds[j]))

\* The step is one iteration of the loop over the merge groups.
LoopStep == groupIdx' = groupIdx + 1

\* What the console said in that iteration.
SaidNow == mergeLog'[Len(mergeLog')]

\* C2: no partial merge.  A loop iteration either merges its group, and
\* then every member has trips and all members visit the same set of stops,
\* or says that it skips the group and leaves the route index, the removal
\* set and the schedule map as they were; and a call that merged no group
\* returns the catalog it was given and leaves the schedule map unchanged.
C2_NoPartialMerge ==
    /\ [][LoopStep =>
             IF SaidNow.said = "merging"
             THEN ~MemberGap(SaidNow, schedules)
             ELSE /\ SaidNow.said \in {"found-too-few", "different-stops"}
                  /\ UNCHANGED <<routeIndex, routesToRemove, schedules>>]_vars
    /\ [](( /\ mergePc = "done"
            /\ \A i \in 1..Len(mergeLog) : mergeLog[i].said # "merging")
          => (mergedRoutes = routes /\ schedules = schedulesIn))

\* C2 witness: a call has returned after the validation refused a group of
\* two catalog routes.
C2_Witness ==
    /\ mergePc = "done"
    /\ Len(routes) >= 2
    /\ LastSaid = "different-stops"

\* C3: trip reassignment.  When a group is merged, each trip of each
\* member's bucket is in the primary id's bucket, every trip of that bucket
\* carries the primary id, and no non-primary member id is a key any more.
C3_TripReassignment ==
    [][(LoopStep /\ SaidNow.said = "merging") =>
          LET primary == SaidNow.primary
              bucket  == TripsOf(schedules', primary)
          IN  /\ \A id \in Range(SaidNow.routeIds) :
                    \A k \in 1..Len(TripsOf(schedules, id)) :
                        [TripsOf(schedules, id)[k]
                             EXCEPT !.routeId = primary] \in Range(bucket)
              /\ \A k \in 1..Len(bucket) : bucket[k].routeId = primary
              /\ \A id \in Range(SaidNow.routeIds) \ {primary} :
                    ~MapHas(schedules', id)]_vars

\* C3 witness: two different routes were merged into a primary that is not
\* the first listed, and the primary's bucket holds the trips of both.
C3_Witness ==
    /\ LastSaid = "merging"
    /\ LET said == mergeLog[Len(mergeLog)]
       IN  /\ said.primary \in Range(said.routeIds)
           /\ said.primary # said.routeIds[1]
           /\ Len(TripsOf(schedules, said.primary)) >= 2
           /\ ~MapHas(schedules, said.routeIds[1])

\* C4 (as claimed): the returned catalog has no entry for a non-primary
\* member of a merged group and exactly one entry for its primary id, which
\* carries the merged name.
C4_CatalogReplacement ==
    mergePc = "done" =>
        \A i \in 1..Len(mergeLog) :
            mergeLog[i].said = "merging" =>
                LET said == mergeLog[i]
                    at   == {k \in 1..Len(mergedRoutes) :
                                mergedRoutes[k].routeId = said.primary}
                IN  /\ \A k \in 1..Len(mergedRoutes) :
                          mergedRoutes[k].routeId
                              \notin Range(said.routeIds) \ {said.primary}
                    /\ Cardinality(at) = 1
                    /\ \A k \in at : mergedRoutes[k].routeName = said.mergedName

UnionOf(rs, Field(_)) == UNION {Range(Field(rs[i])) : i \in 1..Len(rs)}

-----------------------------------------------------------------------------
(* haveIdenticalStops on any two trip lists: the lists are drawn, the       *)
(* function is applied, and it is applied again after the arguments are     *)
(* swapped, a list's trips or a trip's stops are reordered, or a stop is    *)
(* visited once more.                                                       *)

MaxVisits == 2       \* stop visits in one trip list

\* Station codes, in code-unit order.
StopIds == {1, 2, 3}

RECURSIVE VisitLists(_)
\* The lists of non-empty stop lists that hold n stop visits in all.
VisitLists(n) ==
    IF n = 0 THEN {<<>>}
    ELSE UNION {{<<first>> \o rest : first \in [1..k -> StopIds],
                                     rest \in VisitLists(n - k)} : k \in 1..n}

TripLists(id) ==
    {BucketOf(id, pattern) : pattern \in UNION {VisitLists(n) : n \in 0..MaxVisits}}

Visits(trips) == Len(Flatten([k \in 1..Len(trips) |-> TripStopIds(trips[k])]))

SwapAt(s, i) == [s EXCEPT ![i] = s[i + 1], ![i + 1] = s[i]]

Compare(a, b) ==
    /\ listA' = a
    /\ listB' = b
    /\ identical' = haveIdenticalStops(a, b)
    /\ UNCHANGED <<besidesStops>>

InitStops ==
    /\ \E a \in TripLists("42957"), b \in TripLists("72") :
           listA = a /\ listB = b /\ identical = haveIdenticalStops(a, b)
    /\ IdleBesidesStops

SwapArguments == \E a \in {listB} : Compare(a, listA)

ShuffleTrips ==
    \/ \E i \in 1..(Len(listA) - 1) : Compare(SwapAt(listA, i), listB)
    \/ \E i \in 1..(Len(listB) - 1) : Compare(listA, SwapAt(listB, i))

ShuffleStops ==
    \/ \E k \in 1..Len(listA) : \E i \in 1..(Len(listA[k].stops) - 1) :
           Compare([listA EXCEPT ![k].stops = SwapAt(@, i)], listB)
    \/ \E k \in 1..Len(listB) : \E i \in 1..(Len(listB[k].stops) - 1) :
           Compare(listA, [listB EXCEPT ![k].stops = SwapAt(@, i)])

RepeatStop ==
    \/ /\ Visits(listA) < MaxVisits
       /\ \E k \in 1..Len(listA) : \E i \in 1..Len(listA[k].stops) :
              Compare([listA EXCEPT ![k].stops = Append(@, @[i])], listB)
    \/ /\ Visits(listB) < MaxVisits
       /\ \E k \in 1..Len(listB) : \E i \in 1..Len(listB[k].stops) :
              Compare(listA, [listB EXCEPT ![k].stops = Append(@, @[i])])

NextStops ==
    \/ SwapArguments
    \/ ShuffleTrips
    \/ ShuffleStops
    \/ RepeatStop

SpecStops == InitStops /\ [][NextStops]_vars

\* C6: haveIdenticalStops gives the same answer when its arguments are
\* swapped, when the trips of a list or the stops of a trip are reordered and
\* when a stop is visited again; the answer is TRUE exactly when the two
\* lists visit the same set of stop ids.
C6_IdenticalStopsSymmetric ==
    /\ [][identical' = identical]_vars
    /\ [](identical <=> (VisitedStops(listA) = VisitedStops(listB)))

\* Two lists found identical: two trips of one stop each against one trip
\* that visits the two stops in descending order.
C6_Witness ==
    /\ identical
    /\ Len(listA) = 2 /\ Len(listB) = 1
    /\ Cardinality(VisitedStops(listA)) = 2
    /\ TripStopIds(listB[1])[1] > TripStopIds(listB[1])[2]

-----------------------------------------------------------------------------
(* gtfsProcessor.ts: the indexes.                                          *)

\* Map.set in feed order: the last row with a key is the one kept.
LastIndexOf(keys, key) ==
    CHOOSE i \in 1..Len(keys) :
        keys[i] = key /\ \A j \in (i + 1)..Len(keys) : keys[j] # key

buildStopIndex(stops) ==
    LET ids == [i \in 1..Len(stops) |-> stops[i].stop_id]
    IN  [id \in Range(ids) |-> stops[LastIndexOf(ids, id)]]

ShapeSequenceKey(points) ==
    [sp \in Range(points) |-> <<sp.shape_pt_sequence>>]

buildShapeIndex(shapes) ==
    [id \in {shapes[i].shape_id : i \in 1..Len(shapes)} |->
        LET shapePoints == SelectSeq(shapes, LAMBDA sp : sp.shape_id = id)
            sorted      == SortByKey(shapePoints, ShapeSequenceKey(shapePoints))
        IN  [shapeId     |-> id,
             coordinates |-> [i \in 1..Len(sorted) |->
                                 <<sorted[i].shape_pt_lat,
                                   sorted[i].shape_pt_lon>>]]]

StopSequenceKey(rows) == [st \in Range(rows) |-> <<st.stop_sequence>>]

\* buildStopTimeIndex without the sort of each trip's list.
buildStopTimeIndex_Unsorted(stopTimes) ==
    [id \in {stopTimes[i].trip_id : i \in 1..Len(stopTimes)} |->
        SelectSeq(stopTimes, LAMBDA st : st.trip_id = id)]

buildStopTimeIndex(stopTimes) ==
    [id \in {stopTimes[i].trip_id : i \in 1..Len(stopTimes)} |->
        LET stopTimeList == SelectSeq(stopTimes, LAMBDA st : st.trip_id = id)
        IN  SortByKey(stopTimeList, StopSequenceKey(stopTimeList))]

-----------------------------------------------------------------------------
(* gtfsProcessor.ts: the travel axis.  Coordinates are whole degrees;      *)
(* Math.sin and Math.cos are tabulated in thousandths for the degrees the  *)
(* feeds below use.                                                        *)

SinTable == [d \in {0, 1, 2, 40, 41, 42} |->
                CASE d = 0 -> 0 [] d = 1 -> 17 [] d = 2 -> 35
                  [] d = 40 -> 643 [] d = 41 -> 656 [] d = 42 -> 669]

CosTable == [d \in {0, 1, 2, 40, 41, 42} |->
                CASE d = 0 -> 1000 [] d = 1 -> 1000 [] d = 2 -> 999
                  [] d = 40 -> 766 [] d = 41 -> 755 [] d = 42 -> 743]

Sin(d) == IF d < 0 THEN 0 - SinTable[0 - d] ELSE SinTable[d]

Cos(d) == IF d < 0 THEN CosTable[0 - d] ELSE CosTable[d]

\* The pair <<y, x>> of lines 37-39, in millionths of thousandths; the
\* bearing is atan2(y, x) in degrees, normalised to 0..360.
calculateBearing(coord1, coord2) ==
    LET lat1 == coord1[1]
        lat2 == coord2[1]
        dLon == coord2[2] - coord1[2]
    IN  <<Sin(dLon) * Cos(lat2) * 1000,
          Cos(lat1) * Sin(lat2) * 1000 - Sin(lat1) * Cos(lat2) * Cos(dLon)>>

\* bearing >= 315 || bearing < 45: atan2(y, x) in [-45, 45), which holds
\* for y = x = 0 too.  bearing >= 135 && bearing < 225: atan2(y, x) in
\* [135, 180] or (-180, -135).
isNorthSouthBearing(bearing) ==
    LET y == bearing[1]
        x == bearing[2]
    IN  \/ (x > 0 /\ 0 - x <= y /\ y < x)
        \/ (x = 0 /\ y = 0)
        \/ (x < 0 /\ x < y /\ y <= 0 - x)

SpanOf(values) ==
    LET S == Range(values)
    IN  (CHOOSE hi \in S : \A v \in S : v <= hi)
            - (CHOOSE lo \in S : \A v \in S : lo <= v)

\* determineDirectionAxis that looks at the spans only.
determineDirectionAxis_SpansOnly(coordinates) ==
    IF Len(coordinates) < 2 THEN "east-west"
    ELSE LET latRange == SpanOf([i \in 1..Len(coordinates) |-> coordinates[i][1]])
             lonRange == SpanOf([i \in 1..Len(coordinates) |-> coordinates[i][2]])
         IN  IF lonRange > latRange THEN "east-west" ELSE "north-south"

\* latRange >= lonRange * 0.7 is 10 * latRange >= 7 * lonRange.
determineDirectionAxis(coordinates) ==
    IF Len(coordinates) < 2 THEN "east-west"
    ELSE LET latRange == SpanOf([i \in 1..Len(coordinates) |-> coordinates[i][1]])
             lonRange == SpanOf([i \in 1..Len(coordinates) |-> coordinates[i][2]])
             bearing  == calculateBearing(coordinates[1],
                                          coordinates[Len(coordinates)])
         IN  IF isNorthSouthBearing(bearing) /\ 10 * latRange >= 7 * lonRange
             THEN "north-south"
             ELSE IF ~isNorthSouthBearing(bearing)
                       /\ 10 * lonRange >= 7 * latRange
             THEN "east-west"
             ELSE IF lonRange > latRange THEN "east-west" ELSE "north-south"

-----------------------------------------------------------------------------
(* gtfsProcessor.ts: processRoutes.                                        *)

\* A trip without a train number: trip_short_name is the empty string.
Unnumbered == 0

\* Lines 259-265, 269-274: the unique values, the falsy ones filtered out.
routeNumbersOf(routeTrips) ==
    Dedup(SelectSeq([i \in 1..Len(routeTrips) |-> routeTrips[i].trip_short_name],
                    LAMBDA n : n # Unnumbered))

shapeIdsOf(routeTrips) ==
    Dedup(SelectSeq([i \in 1..Len(routeTrips) |-> routeTrips[i].shape_id],
                    LAMBDA id : id # ""))

uniqueHeadsignsOf(routeTrips) ==
    Dedup(SelectSeq([i \in 1..Len(routeTrips) |-> routeTrips[i].trip_headsign],
                    LAMBDA h : h # ""))

uniqueDirectionIdsOf(routeTrips) ==
    Dedup([i \in 1..Len(routeTrips) |-> routeTrips[i].direction_id])

\* Lines 278-302.
directionAxisOf(routeTrips, shapeIds, stopIndex, shapeIndex, stopTimes) ==
    IF Len(shapeIds) > 0 /\ MapHas(shapeIndex, shapeIds[1])
    THEN determineDirectionAxis(shapeIndex[shapeIds[1]].coordinates)
    ELSE LET tripStopTimes ==
                 MapGetOr(stopTimes, routeTrips[1].trip_id, <<>>)
             known ==
                 SelectSeq(tripStopTimes, LAMBDA st : MapHas(stopIndex, st.stop_id))
             stopCoords ==
                 [i \in 1..Len(known) |->
                     <<stopIndex[known[i].stop_id].stop_lat,
                       stopIndex[known[i].stop_id].stop_lon>>]
         IN  IF Len(tripStopTimes) >= 2 /\ Len(stopCoords) >= 2
             THEN determineDirectionAxis(stopCoords)
             ELSE "east-west"

\* Lines 304-317.
directionOptionsOf(directionAxis, uniqueDirectionIds, uniqueHeadsigns) ==
    IF directionAxis = "east-west"
    THEN IF Len(uniqueDirectionIds) >= 2 \/ Len(uniqueHeadsigns) >= 2
         THEN <<"westbound", "eastbound">>
         ELSE <<"westbound">>
    ELSE IF Len(uniqueDirectionIds) >= 2 \/ Len(uniqueHeadsigns) >= 2
         THEN <<"northbound", "southbound">>
         ELSE <<"northbound">>

routeTripsOf(route, trips) ==
    SelectSeq(trips, LAMBDA t : t.route_id = route.route_id)

\* Lines 259-328: the ProcessedRoute of a route that has trips.
processedRouteOf(route, trips, stops, shapes, stopTimes) ==
    LET routeTrips    == routeTripsOf(route, trips)
        shapeIds      == shapeIdsOf(routeTrips)
        directionAxis ==
            directionAxisOf(routeTrips, shapeIds, buildStopIndex(stops),
                            buildShapeIndex(shapes),
                            buildStopTimeIndex(stopTimes))
    IN  [routeId          |-> route.route_id,
         routeName        |-> route.route_long_name,
         routeNumbers     |-> routeNumbersOf(routeTrips),
         directionAxis    |-> directionAxis,
         directionOptions |->
             directionOptionsOf(directionAxis,
                                uniqueDirectionIdsOf(routeTrips),
                                uniqueHeadsignsOf(routeTrips)),
         shapeIds         |-> shapeIds,
         color            |-> route.route_color,
         url              |-> route.route_url]

-----------------------------------------------------------------------------
(* Inputs of processRoutes and processSchedules: small feeds.              *)

MaxFeedTrips == 2    \* rows of trips.txt

GTFSRouteOf(id) ==
    [route_id |-> id,
     route_long_name |-> IF id = "42957" THEN "Illinois Zephyr" ELSE "Carl Sandburg",
     route_color |-> "c1", route_url |-> "u1"]

RouteFeeds ==
    {<<GTFSRouteOf("42957")>>, <<GTFSRouteOf("42957"), GTFSRouteOf("72")>>}

TripIds == <<"t1", "t2", "t3">>

\* Train numbers are strings of digits; the second trip has none.
TripNumbers == <<5, Unnumbered, 48>>

\* The rows that may stand at position k of trips.txt.
TripChoices(k) ==
    {[trip_id |-> TripIds[k], route_id |-> r, service_id |-> "svc",
      trip_short_name |-> TripNumbers[k], trip_headsign |-> h,
      shape_id |-> sh, direction_id |-> d] :
        r \in {"42957", "72"}, h \in {"", "Chicago", "Quincy"},
        sh \in {"", "s1"}, d \in {0, 1}}

RECURSIVE TripFeedsOfLen(_)
TripFeedsOfLen(n) ==
    IF n = 0 THEN {<<>>}
    ELSE {Append(f, t) : f \in TripFeedsOfLen(n - 1), t \in TripChoices(n)}

TripFeeds == UNION {TripFeedsOfLen(n) : n \in 0..MaxFeedTrips}

GTFSShapeOf(id, lat, lon, seq) ==
    [shape_id |-> id, shape_pt_lat |-> lat, shape_pt_lon |-> lon,
     shape_pt_sequence |-> seq]

\* No shapes file; a path that runs north, its rows out of order; a path
\* that runs east.
ShapeFeeds ==
    {<<>>,
     <<GTFSShapeOf("s1", 42, -90, 2), GTFSShapeOf("s1", 40, -90, 1)>>,
     <<GTFSShapeOf("s1", 40, -90, 1), GTFSShapeOf("s1", 40, -88, 2)>>}

GTFSStopOf(id, lat, lon) ==
    [stop_id |-> id, stop_name |-> <<"station", id>>, stop_lat |-> lat,
     stop_lon |-> lon, stop_timezone |-> "America/Chicago"]

\* Stop ids are station codes; k stands for the k-th code.  Stop 3 is in no
\* stops file.
StopFeed == <<GTFSStopOf(1, 42, -88), GTFSStopOf(2, 40, -88)>>

\* A stop_times.txt row; time is the list of the numbers of its time text.
GTFSStopTimeOf(trip, stop, seq, time) ==
    [trip_id |-> trip, arrival_time |-> GTFSTimeText(time),
     departure_time |-> GTFSTimeText(time),
     stop_id |-> stop, stop_sequence |-> seq]

\* No stop times; the first trip runs south from stop 1 to stop 2; the
\* first trip's second stop is unknown.
RouteStopTimeFeeds ==
    {<<>>,
     <<GTFSStopTimeOf("t1", 2, 2, <<11, 0, 0>>),
       GTFSStopTimeOf("t1", 1, 1, <<10, 0, 0>>)>>,
     <<GTFSStopTimeOf("t1", 1, 1, <<10, 0, 0>>),
       GTFSStopTimeOf("t1", 3, 2, <<11, 0, 0>>)>>}

-----------------------------------------------------------------------------
(* processRoutes as a state machine: one step per route, then the return.  *)
(* After the return the caller may run it again on the same feed with the  *)
(* direction_id of some trips changed.                                     *)

StartRoutes(trips) ==
    /\ gtfsTrips' = trips
    /\ routeIdx' = 0
    /\ processedRoutes' = <<>>
    /\ routeLog' = <<>>
    /\ routePc' = "loop"
    /\ runs' = runs + 1
    /\ firstProcessed' = processedRoutes
    /\ UNCHANGED <<gtfsRoutes, gtfsShapes, gtfsStopTimes>>

InitRoutes ==
    /\ gtfsRoutes \in RouteFeeds
    /\ gtfsTrips \in TripFeeds
    /\ gtfsShapes \in ShapeFeeds
    /\ gtfsStopTimes \in RouteStopTimeFeeds
    /\ routeIdx = 0
    /\ processedRoutes = <<>>
    /\ routeLog = <<>>
    /\ routePc = "loop"
    /\ runs = 1
    /\ firstProcessed = <<>>
    /\ IdleBesidesRoutes

\* Lines 252-257: the route has no trips.
RouteHasNoTrips ==
    /\ routePc = "loop"
    /\ routeIdx < Len(gtfsRoutes)
    /\ routeTripsOf(gtfsRoutes[routeIdx + 1], gtfsTrips) = <<>>
    /\ routeLog' = Append(routeLog, [said |-> "no-trips",
                                     route |-> gtfsRoutes[routeIdx + 1].route_id])
    /\ routeIdx' = routeIdx + 1
    /\ UNCHANGED <<gtfsRoutes, gtfsTrips, gtfsShapes, gtfsStopTimes,
                   processedRoutes, routePc, runs, firstProcessed,
                   besidesRoutes>>

\* Lines 259-330: the route is processed and pushed.
RouteProcessed ==
    /\ routePc = "loop"
    /\ routeIdx < Len(gtfsRoutes)
    /\ routeTripsOf(gtfsRoutes[routeIdx + 1], gtfsTrips) # <<>>
    /\ processedRoutes' =
           Append(processedRoutes,
                  processedRouteOf(gtfsRoutes[routeIdx + 1], gtfsTrips,
                                   StopFeed, gtfsShapes, gtfsStopTimes))
    /\ routeIdx' = routeIdx + 1
    /\ UNCHANGED <<gtfsRoutes, gtfsTrips, gtfsShapes, gtfsStopTimes, routeLog,
                   routePc, runs, firstProcessed,
                   besidesRoutes>>

\* Lines 336-337.
RoutesReturn ==
    /\ routePc = "loop"
    /\ routeIdx = Len(gtfsRoutes)
    /\ routePc' = "done"
    /\ UNCHANGED <<gtfsRoutes, gtfsTrips, gtfsShapes, gtfsStopTimes, routeIdx,
                   processedRoutes, routeLog, runs, firstProcessed,
                   besidesRoutes>>

\* A second call on the feed with the direction_id of the trips in K
\* changed from 0 to 1 or from 1 to 0.
RoutesAgainRedirected ==
    /\ routePc = "done"
    /\ runs = 1
    /\ \E K \in SUBSET (1..Len(gtfsTrips)) \ {{}} :
           StartRoutes([k \in 1..Len(gtfsTrips) |->
                           IF k \in K
                           THEN [gtfsTrips[k] EXCEPT !.direction_id = 1 - @]
                           ELSE gtfsTrips[k]])
    /\ UNCHANGED <<besidesRoutes>>

NextRoutes ==
    \/ RouteHasNoTrips
    \/ RouteProcessed
    \/ RoutesReturn
    \/ RoutesAgainRedirected

SpecRoutes == InitRoutes /\ [][NextRoutes]_vars

HeadsignsOf(route) ==
    uniqueHeadsignsOf(SelectSeq(gtfsTrips, LAMBDA t : t.route_id = route.routeId))

\* C7 (as claimed): the direction options of a route do not depend on the
\* direction_id of its trips: a second call on a feed that differs in
\* direction_id values only gives every route the direction options of the
\* first call, and a route whose trips carry no headsign has one option.
C7_DirectionFlagIgnored ==
    routePc = "done" =>
        /\ runs = 2 =>
               \A i \in 1..Len(processedRoutes) :
                   processedRoutes[i].directionOptions
                       = firstProcessed[i].directionOptions
        /\ \A i \in 1..Len(processedRoutes) :
               HeadsignsOf(processedRoutes[i]) = <<>> =>
                   Len(processedRoutes[i].directionOptions) = 1

-----------------------------------------------------------------------------
(* gtfsLoader: parseGTFSTime.  The time string is text; in the feeds of    *)
(* the model GTFSTimeText(<<25, 30, 0>>) is "25:30:00" and                *)
(* GTFSTimeText(<<10, 0>>) is "10:00".                                     *)

\* parts.length !== 3: parseGTFSTime throws.
parseGTFSTimeThrows(timeStr) == Len(split(timeStr, ":")) # 3

\* parseGTFSTime without the wrap of the hours at 24.
parseGTFSTime_NoWrap(timeStr) ==
    LET parts      == split(timeStr, ":")
        totalHours == parseInt(parts[1])
        minutes    == parseInt(parts[2])
    IN  [hours        |-> totalHours,
         minutes      |-> minutes,
         seconds      |-> parseInt(parts[3]),
         dayOffset    |-> IF totalHours = NaN THEN NaN ELSE totalHours \div 24,
         totalMinutes |-> IF totalHours = NaN \/ minutes = NaN THEN NaN
                          ELSE totalHours * 60 + minutes]

\* Arithmetic on NaN gives NaN.
parseGTFSTime(timeStr) ==
    LET parts      == split(timeStr, ":")
        totalHours == parseInt(parts[1])
        minutes    == parseInt(parts[2])
        seconds    == parseInt(parts[3])
    IN  [hours        |-> IF totalHours = NaN THEN NaN ELSE totalHours % 24,
         minutes      |-> minutes,
         seconds      |-> seconds,
         dayOffset    |-> IF totalHours = NaN THEN NaN ELSE totalHours \div 24,
         totalMinutes |-> IF totalHours = NaN \/ minutes = NaN THEN NaN
                          ELSE totalHours * 60 + minutes]

-----------------------------------------------------------------------------
(* gtfsProcessor.ts: processSchedules and validateProcessedSchedules.      *)

\* Lines 379-399: the callback of tripStopTimes.map throws for this row.
stopTimeThrows(st, stopIndex) ==
    \/ ~MapHas(stopIndex, st.stop_id)
    \/ parseGTFSTimeThrows(st.arrival_time)

\* What the loop body does with a trip: "no-stop-times" (lines 365-369),
\* "invalid-service" (372-376), "error" (the catch, 426-428) or "emitted".
tripOutcome(trip, stopTimes, stopIndex, calendarIndex) ==
    IF MapGetOr(stopTimes, trip.trip_id, <<>>) = <<>> THEN "no-stop-times"
    ELSE IF ~MapHas(calendarIndex, trip.service_id) THEN "invalid-service"
    ELSE IF \E i \in 1..Len(stopTimes[trip.trip_id]) :
                stopTimeThrows(stopTimes[trip.trip_id][i], stopIndex)
    THEN "error"
    ELSE "emitted"

processedStopsOf(tripStopTimes, stopIndex) ==
    [i \in 1..Len(tripStopTimes) |->
        LET st   == tripStopTimes[i]
            stop == stopIndex[st.stop_id]
        IN  [stopId        |-> st.stop_id,
             stopName      |-> stop.stop_name,
             stopSequence  |-> st.stop_sequence,
             coordinates   |-> <<stop.stop_lat, stop.stop_lon>>,
             timezone      |-> stop.stop_timezone,
             arrivalTime   |-> st.arrival_time,
             departureTime |-> st.departure_time,
             dayOffset     |-> parseGTFSTime(st.arrival_time).dayOffset]]

\* Lines 401-419.
scheduleOf(trip, tripStopTimes, cal, stopIndex) ==
    [tripId        |-> trip.trip_id,
     routeId       |-> trip.route_id,
     trainNumber   |-> trip.trip_short_name,
     direction     |-> trip.trip_headsign,
     shapeId       |-> trip.shape_id,
     stops         |-> processedStopsOf(tripStopTimes, stopIndex),
     operatingDays |-> [monday    |-> cal.monday = 1,
                        tuesday   |-> cal.tuesday = 1,
                        wednesday |-> cal.wednesday = 1,
                        thursday  |-> cal.thursday = 1,
                        friday    |-> cal.friday = 1,
                        saturday  |-> cal.saturday = 1,
                        sunday    |-> cal.sunday = 1],
     startDate     |-> cal.start_date,
     endDate       |-> cal.end_date]

\* The schedule put in front of its route's bucket instead of behind.
pushSchedule_InFront(byRoute, schedule) ==
    MapSet(byRoute, schedule.routeId,
           <<schedule>> \o MapGetOr(byRoute, schedule.routeId, <<>>))

\* Lines 421-425.
pushSchedule(byRoute, schedule) ==
    MapSet(byRoute, schedule.routeId,
           Append(MapGetOr(byRoute, schedule.routeId, <<>>), schedule))

\* The day-offset check with lastDayOffset left at 0.
dayOffsetDrops_FromZero(stops) == {i \in 1..Len(stops) : stops[i].dayOffset < 0}

\* Lines 618-628: the stops at which the day-offset warning is given.
dayOffsetDrops(stops) ==
    {i \in 1..Len(stops) :
        stops[i].dayOffset < (IF i = 1 THEN 0 ELSE stops[i - 1].dayOffset)}

\* Lines 599-629: the warnings one schedule adds to the counter.
scheduleWarnings(schedule) ==
    (IF Len(schedule.stops) < 2 THEN 1 ELSE 0)
        + Cardinality({i \in 1..Len(schedule.stops) :
                          Len(schedule.stops[i].coordinates) # 2})
        + Cardinality(dayOffsetDrops(schedule.stops))

RECURSIVE SumOf(_)
\* The sum of the values of a function with a finite domain.
SumOf(f) ==
    IF DOMAIN f = {} THEN 0
    ELSE LET x == CHOOSE x \in DOMAIN f : TRUE
         IN  f[x] + SumOf([y \in DOMAIN f \ {x} |-> f[y]])

\* All the schedules of the map, as the set of <<routeId, position>>.
SchedulePlaces(byRoute) ==
    UNION {{<<id, k>> : k \in 1..Len(byRoute[id])} : id \in DOMAIN byRoute}

-----------------------------------------------------------------------------
(* Inputs of processSchedules: two trips, the stop-time rows of the first  *)
(* drawn freely, the second with two good rows or none.                    *)

MaxStopTimes == 3    \* stop_times.txt rows of the first trip

GTFSTripOf(id, route, service, number) ==
    [trip_id |-> id, route_id |-> route, service_id |-> service,
     trip_short_name |-> number, trip_headsign |-> "Chicago",
     shape_id |-> "s1", direction_id |-> 0]

\* Service "gone" has no calendar row.
CalendarFeed ==
    <<[service_id |-> "svc", monday |-> 1, tuesday |-> 1, wednesday |-> 1,
       thursday |-> 1, friday |-> 1, saturday |-> 0, sunday |-> 0,
       start_date |-> "20260101", end_date |-> "20261231"]>>

calendarIndexOf(calendar) ==
    LET ids == [i \in 1..Len(calendar) |-> calendar[i].service_id]
    IN  [id \in Range(ids) |-> calendar[LastIndexOf(ids, id)]]

ScheduleTripFeeds ==
    UNION {{<<a, b>>, <<b, a>>} :
              a \in {GTFSTripOf("t1", "42957", sv, 5) : sv \in {"svc", "gone"}},
              b \in {GTFSTripOf("t2", r, "svc", 48) : r \in {"42957", "72"}}}

\* The rows of the first trip: at stop 1 or 2 with a time of the first day,
\* of the second day or without seconds, or at the unknown stop 3.
RowChoices ==
    {GTFSStopTimeOf("t1", sq, sq, time) :
        sq \in {1, 2}, time \in {<<10, 0, 0>>, <<25, 30, 0>>, <<10, 0>>}}
    \cup {GTFSStopTimeOf("t1", 3, sq, <<10, 0, 0>>) : sq \in {1, 2}}

RECURSIVE RowListsOfLen(_)
RowListsOfLen(n) ==
    IF n = 0 THEN {<<>>}
    ELSE {Append(rows, row) : rows \in RowListsOfLen(n - 1), row \in RowChoices}

SiblingRows ==
    {<<>>,
     <<GTFSStopTimeOf("t2", 1, 1, <<23, 0, 0>>),
       GTFSStopTimeOf("t2", 2, 2, <<24, 10, 0>>)>>}

StopTimeFeeds ==
    {rows \o sibling :
        rows \in UNION {RowListsOfLen(n) : n \in 0..MaxStopTimes},
        sibling \in SiblingRows}

-----------------------------------------------------------------------------
(* processSchedules as a state machine: one step per trip, then the        *)
(* return; the caller may then run validateProcessedSchedules on the map.  *)

InitSchedules ==
    /\ feedTrips \in ScheduleTripFeeds
    /\ feedStopTimes \in StopTimeFeeds
    /\ stopTimeIndex = buildStopTimeIndex(feedStopTimes)
    /\ schedulesByRoute = EmptyMap
    /\ tripIdx = 0
    /\ schedLog = <<>>
    /\ schedPc = "loop"
    /\ warnings = 0
    /\ offsetWarned = {}
    /\ IdleBesidesSchedules

\* The loop is at a trip whose outcome is this one.
AtTripWith(outcome) ==
    /\ schedPc = "loop"
    /\ tripIdx < Len(feedTrips)
    /\ tripOutcome(feedTrips[tripIdx + 1], stopTimeIndex,
                   buildStopIndex(StopFeed), calendarIndexOf(CalendarFeed))
           = outcome

\* The console names the trip and the loop goes on.
SkipTrip(outcome) ==
    /\ schedLog' = Append(schedLog, [said |-> outcome,
                                     trip |-> feedTrips[tripIdx + 1].trip_id])
    /\ tripIdx' = tripIdx + 1
    /\ UNCHANGED <<feedTrips, feedStopTimes, stopTimeIndex, schedulesByRoute,
                   schedPc, warnings, offsetWarned,
                   besidesSchedules>>

\* Lines 365-369.
TripHasNoStopTimes ==
    /\ AtTripWith("no-stop-times")
    /\ SkipTrip("no-stop-times")

\* Lines 372-376.
TripHasNoCalendar ==
    /\ AtTripWith("invalid-service")
    /\ SkipTrip("invalid-service")

\* Lines 382-384, 387 and the catch of lines 426-428.
TripThrows ==
    /\ AtTripWith("error")
    /\ SkipTrip("error")

\* Lines 379-425.
TripEmitted ==
    /\ AtTripWith("emitted")
    /\ LET trip == feedTrips[tripIdx + 1]
       IN  schedulesByRoute' =
               pushSchedule(schedulesByRoute,
                            scheduleOf(trip, stopTimeIndex[trip.trip_id],
                                       calendarIndexOf(CalendarFeed)[trip.service_id],
                                       buildStopIndex(StopFeed)))
    /\ tripIdx' = tripIdx + 1
    /\ UNCHANGED <<feedTrips, feedStopTimes, stopTimeIndex, schedLog, schedPc,
                   warnings, offsetWarned, besidesSchedules>>

\* Lines 431-435.
SchedulesReturn ==
    /\ schedPc = "loop"
    /\ tripIdx = Len(feedTrips)
    /\ schedPc' = "done"
    /\ UNCHANGED <<feedTrips, feedStopTimes, stopTimeIndex, schedulesByRoute,
                   tripIdx, schedLog, warnings, offsetWarned,
                   besidesSchedules>>

\* validateProcessedSchedules on the returned map: it counts and reports,
\* and changes nothing.
ValidateSchedules ==
    /\ schedPc = "done"
    /\ warnings' =
           SumOf([place \in SchedulePlaces(schedulesByRoute) |->
                     scheduleWarnings(schedulesByRoute[place[1]][place[2]])])
    /\ offsetWarned' =
           {schedulesByRoute[place[1]][place[2]].tripId :
               place \in {pl \in SchedulePlaces(schedulesByRoute) :
                   dayOffsetDrops(schedulesByRoute[pl[1]][pl[2]].stops) # {}}}
    /\ schedPc' = "validated"
    /\ UNCHANGED <<feedTrips, feedStopTimes, stopTimeIndex, schedulesByRoute,
                   tripIdx, schedLog, besidesSchedules>>

NextSchedules ==
    \/ TripHasNoStopTimes
    \/ TripHasNoCalendar
    \/ TripThrows
    \/ TripEmitted
    \/ SchedulesReturn
    \/ ValidateSchedules

SpecSchedules == InitSchedules /\ [][NextSchedules]_vars

-----------------------------------------------------------------------------
(* Claims about processSchedules.                                          *)

ScheduleAt(place) == schedulesByRoute[place[1]][place[2]]

RowsOfTrip(trip) == SelectSeq(feedStopTimes, LAMBDA st : st.trip_id = trip.trip_id)

\* The trip has no stop-time rows, or its service has no calendar row, or
\* one of its rows names a stop that is in no stops row.
HasGap(trip) ==
    \/ RowsOfTrip(trip) = <<>>
    \/ \A i \in 1..Len(CalendarFeed) :
           CalendarFeed[i].service_id # trip.service_id
    \/ \E i \in 1..Len(RowsOfTrip(trip)) :
           \A j \in 1..Len(StopFeed) :
               StopFeed[j].stop_id # RowsOfTrip(trip)[i].stop_id

\* How many colons a text has.
ColonsOf(text) == Cardinality({k \in 1..Len(text) : text[k] = ":"})

RECURSIVE DecimalValue(_)
\* The number a text of digits writes.
DecimalValue(digits) ==
    IF digits = <<>> THEN 0
    ELSE 10 * DecimalValue(SubSeq(digits, 1, Len(digits) - 1))
             + DigitValue(digits[Len(digits)])

\* The hour a time text starts with.
HourOf(text) == DecimalValue(split(text, ":")[1])

\* One of the trip's arrival times is not three fields between colons.
HasMalformedTime(trip) ==
    \E i \in 1..Len(RowsOfTrip(trip)) :
        ColonsOf(RowsOfTrip(trip)[i].arrival_time) # 2

EmittedAt(trip) ==
    {place \in SchedulePlaces(schedulesByRoute) :
        ScheduleAt(place).tripId = trip.trip_id}

\* Each bucket holds the emitted trips of its route in the order of the
\* trips argument.
InInputOrder ==
    \A id \in DOMAIN schedulesByRoute :
        LET emitted == SelectSeq(feedTrips, LAMBDA t : EmittedAt(t) # {})
            ofRoute == SelectSeq(emitted, LAMBDA t : t.route_id = id)
        IN  [k \in 1..Len(schedulesByRoute[id]) |-> schedulesByRoute[id][k].tripId]
                = [k \in 1..Len(ofRoute) |-> ofRoute[k].trip_id]

Returned == schedPc \in {"done", "validated"}

\* C8 (as claimed): when processSchedules has returned, no trip with a
\* referential gap is in a bucket, every trip without such a gap is, and the
\* buckets are in input order.
C8_OnlyGapsDrop ==
    Returned =>
        /\ \A i \in 1..Len(feedTrips) :
               HasGap(feedTrips[i]) <=> EmittedAt(feedTrips[i]) = {}
        /\ InInputOrder

\* C8 (amended): a trip is dropped exactly when it has a referential gap or
\* an arrival time that is not three fields between colons; every other
\* trip is in the bucket of its route, once, in input order; every dropped
\* trip was reported and the call returned.
C8_GapsAndMalformedTimesDrop ==
    Returned =>
        /\ \A i \in 1..Len(feedTrips) :
               LET trip == feedTrips[i]
               IN  IF HasGap(trip) \/ HasMalformedTime(trip)
                   THEN /\ EmittedAt(trip) = {}
                        /\ \E k \in 1..Len(schedLog) :
                               schedLog[k].trip = trip.trip_id
                   ELSE /\ Cardinality(EmittedAt(trip)) = 1
                        /\ \A place \in EmittedAt(trip) :
                               place[1] = trip.route_id
        /\ InInputOrder

\* C8 witness: the first trip was dropped for an unknown stop and the
\* second trip was emitted.
C8_Witness ==
    /\ schedPc = "done"
    /\ feedTrips[1].trip_id = "t1"
    /\ \E i \in 1..Len(RowsOfTrip(feedTrips[1])) :
           RowsOfTrip(feedTrips[1])[i].stop_id = 3
    /\ schedLog = <<[said |-> "error", trip |-> "t1"]>>
    /\ EmittedAt(feedTrips[2]) # {}

\* C9: every trip in a bucket has at least one stop, and its stops are in
\* ascending order of stop sequence number.
C9_StopsSortedNonEmpty ==
    \A place \in SchedulePlaces(schedulesByRoute) :
        LET stops == ScheduleAt(place).stops
        IN  /\ stops # <<>>
            /\ \A i \in 1..(Len(stops) - 1) :
                   stops[i].stopSequence <= stops[i + 1].stopSequence

\* C9 witness: a trip was emitted whose rows stand in the feed with the
\* higher sequence number first.
C9_Witness ==
    \E place \in SchedulePlaces(schedulesByRoute) :
        /\ ScheduleAt(place).tripId = "t1"
        /\ Len(ScheduleAt(place).stops) >= 2
        /\ feedStopTimes[1].stop_sequence > feedStopTimes[2].stop_sequence
        /\ ScheduleAt(place).stops[1].stopSequence
               < ScheduleAt(place).stops[2].stopSequence

NonDecreasingOffsets(stops) ==
    \A i \in 1..(Len(stops) - 1) : stops[i].dayOffset <= stops[i + 1].dayOffset

\* C10 (as claimed): in every trip of the schedule map the day offsets are
\* non-decreasing along the stops.
C10_DayOffsetsNonDecreasing ==
    \A place \in SchedulePlaces(schedulesByRoute) :
        NonDecreasingOffsets(ScheduleAt(place).stops)

\* C10 (amended): a trip's day offsets are the whole days of its arrival
\* hours; validateProcessedSchedules leaves every trip in the map and names
\* in a day-offset warning exactly the trips whose offsets decrease
\* somewhere, and counts at least one warning for each of them.
C10_DecreasingOffsetsWarned ==
    /\ [](\A place \in SchedulePlaces(schedulesByRoute) :
             \A i \in 1..Len(ScheduleAt(place).stops) :
                 ScheduleAt(place).stops[i].dayOffset
                     = HourOf(ScheduleAt(place).stops[i].arrivalTime) \div 24)
    /\ [](schedPc = "validated" =>
             /\ \A place \in SchedulePlaces(schedulesByRoute) :
                    NonDecreasingOffsets(ScheduleAt(place).stops)
                        <=> ScheduleAt(place).tripId \notin offsetWarned
             /\ warnings >= Cardinality(offsetWarned))
    /\ [][schedPc' = "validated" => schedulesByRoute' = schedulesByRoute]_vars

\* C10 witness: the validation has named a trip that arrives on day 1 and
\* then on day 0 and is still in the map.
C10_Witness ==
    /\ schedPc = "validated"
    /\ "t1" \in offsetWarned
    /\ \E place \in SchedulePlaces(schedulesByRoute) :
           /\ ScheduleAt(place).tripId = "t1"
           /\ ScheduleAt(place).stops[1].dayOffset = 1
           /\ ScheduleAt(place).stops[2].dayOffset = 0

-----------------------------------------------------------------------------
(* parseGTFSTime on the arrival time of one stop_times.txt row, as the     *)
(* map callback of processSchedules calls it (gtfsProcessor.ts 379-399).   *)

MaxTimeParts == 4    \* pieces between the colons of a time string

\* What stands between two colons: nothing, or a number in digits.
TimeParts ==
    {<<>>, <<"0">>, <<"0", "0">>, <<"0", "5">>, <<"2", "4">>, <<"2", "5">>,
     <<"3", "0">>, <<"2", "5", "0">>}

TimeTexts ==
    {join(parts, ":") :
        parts \in UNION {[1..n -> TimeParts] : n \in 1..MaxTimeParts}}

\* The row whose arrival time is the text; it leaves two days later.
TimedRowOf(text) ==
    [trip_id |-> "t1", arrival_time |-> text,
     departure_time |-> GTFSTimeText(<<49, 0, 0>>),
     stop_id |-> 1, stop_sequence |-> 1]

InitTime ==
    /\ gtfsTime \in TimeTexts
    /\ arrivalParsed = <<>>
    /\ timedStop = <<>>
    /\ timePc = "call"
    /\ IdleBesidesTime

\* Part_005 lines 391-395: not three parts, the callback throws.
TimeThrows ==
    /\ timePc = "call"
    /\ parseGTFSTimeThrows(gtfsTime)
    /\ timePc' = "thrown"
    /\ UNCHANGED <<gtfsTime, arrivalParsed, timedStop, besidesTime>>

\* Part_005 lines 397-411 and the processed stop of gtfsProcessor.ts 389-398.
TimeParsed ==
    /\ timePc = "call"
    /\ ~parseGTFSTimeThrows(gtfsTime)
    /\ arrivalParsed' = parseGTFSTime(gtfsTime)
    /\ timedStop' = processedStopsOf(<<TimedRowOf(gtfsTime)>>,
                                     buildStopIndex(StopFeed))[1]
    /\ timePc' = "parsed"
    /\ UNCHANGED <<gtfsTime, besidesTime>>

NextTime ==
    \/ TimeThrows
    \/ TimeParsed

SpecTime == InitTime /\ [][NextTime]_vars

\* The text is H:M:S, three numbers in digits.
IsHMS(text) ==
    /\ ColonsOf(text) = 2
    /\ \A i \in 1..3 : split(text, ":")[i] # <<>>

FieldOf(text, i) == DecimalValue(split(text, ":")[i])

\* C11: for a time string H:M:S parseGTFSTime does not throw and returns
\* hours = H mod 24, dayOffset = H div 24 (24*dayOffset + hours = H),
\* minutes = M, seconds = S and totalMinutes = 60*H + M; "25:30:00" gives
\* hours 1, minutes 30, day offset 1 and 1530 total minutes; the processed
\* stop carries the day offset of its arrival time.
C11_DayOffsetArithmetic ==
    /\ IsHMS(gtfsTime) => timePc # "thrown"
    /\ timePc = "parsed" /\ IsHMS(gtfsTime) =>
           /\ arrivalParsed.hours = FieldOf(gtfsTime, 1) % 24
           /\ arrivalParsed.dayOffset = FieldOf(gtfsTime, 1) \div 24
           /\ 24 * arrivalParsed.dayOffset + arrivalParsed.hours
                  = FieldOf(gtfsTime, 1)
           /\ arrivalParsed.minutes = FieldOf(gtfsTime, 2)
           /\ arrivalParsed.seconds = FieldOf(gtfsTime, 3)
           /\ arrivalParsed.totalMinutes
                  = 60 * FieldOf(gtfsTime, 1) + FieldOf(gtfsTime, 2)
           /\ timedStop.dayOffset = FieldOf(gtfsTime, 1) \div 24
           /\ timedStop.arrivalTime = gtfsTime
    /\ timePc = "parsed" /\ gtfsTime = GTFSTimeText(<<25, 30, 0>>) =>
           /\ arrivalParsed.hours = 1 /\ arrivalParsed.minutes = 30
           /\ arrivalParsed.dayOffset = 1
           /\ arrivalParsed.totalMinutes = 1530

\* C11 witness: "25:30:00" has been parsed into the second day.
C11_Witness ==
    /\ timePc = "parsed"
    /\ gtfsTime = <<"2", "5", ":", "3", "0", ":", "0", "0">>
    /\ arrivalParsed.dayOffset = 1
    /\ timedStop.dayOffset = 1

-----------------------------------------------------------------------------
(* sunlight.ts: getTrainPositionAtTime.  A Date is the number of seconds   *)
(* since the midnight that starts the base date; a day has 86400 of them.  *)
(* A number that need not be whole is a pair <<numerator, denominator>>.   *)

\* Lines 98-104: the day of the base date moved by dayOffset, the clock set
\* to the parsed hours (already taken modulo 24), minutes and seconds.
gtfsTimeToDate(timeString, dayOffset) ==
    LET parsed == parseGTFSTime(timeString)
    IN  86400 * dayOffset + 3600 * parsed.hours + 60 * parsed.minutes
            + parsed.seconds

RECURSIVE GCD(_, _)
GCD(a, b) == IF b = 0 THEN a ELSE GCD(b, a % b)

\* The number n / d (d > 0) in lowest terms.
Ratio(n, d) ==
    LET g == GCD(IF n < 0 THEN -n ELSE n, d)
    IN  <<n \div g, d \div g>>

\* Lines 54-66: coord1 + (coord2 - coord1) * fraction, for each of the two
\* numbers of a coordinate.
interpolateCoordinate(coord1, coord2, fraction) ==
    [k \in 1..2 |->
        Ratio(coord1[k] * fraction[2] + (coord2[k] - coord1[k]) * fraction[1],
              fraction[2])]

\* Line 226: the departure instant of every stop.
stopTimesOf(stops) ==
    [i \in 1..Len(stops) |->
        gtfsTimeToDate(stops[i].departureTime, stops[i].dayOffset)]

\* Line 230.
lastArrivalOf(stops) ==
    gtfsTimeToDate(stops[Len(stops)].arrivalTime, stops[Len(stops)].dayOffset)

\* Lines 233-235.
notInTransit(stops, target) ==
    target < stopTimesOf(stops)[1] \/ target > lastArrivalOf(stops)

\* Lines 242-245: the instants of the leg from stop i to the next stop.
currentTimeOf(stops, i) ==
    gtfsTimeToDate(stops[i].departureTime, stops[i].dayOffset)

nextTimeOf(stops, i) ==
    gtfsTimeToDate(stops[i + 1].arrivalTime, stops[i + 1].dayOffset)

\* Line 247: the legs the target lies on.
legsAt(stops, target) ==
    {i \in 1..(Len(stops) - 1) :
        target >= currentTimeOf(stops, i) /\ target <= nextTimeOf(stops, i)}

\* Lines 248-259, for the first leg of the loop that holds the target.
positionOnLeg(stops, target, i) ==
    LET totalDuration   == nextTimeOf(stops, i) - currentTimeOf(stops, i)
        elapsedDuration == target - currentTimeOf(stops, i)
        fraction == IF totalDuration > 0
                    THEN Ratio(elapsedDuration, totalDuration)
                    ELSE Ratio(0, 1)
        point == interpolateCoordinate(stops[i].coordinates,
                                       stops[i + 1].coordinates, fraction)
    IN  [lat |-> point[1], lng |-> point[2],
         nearestStops |-> <<stops[i].stopName, stops[i + 1].stopName>>]

\* Line 266: the stops whose departure is less than a minute from the target.
stopsNear(stops, target) ==
    {i \in 1..Len(stops) :
        LET d == target - stopTimesOf(stops)[i]
        IN  (IF d < 0 THEN -d ELSE d) < 60}

\* Lines 267-273.
positionAtStop(stops, i) ==
    [lat |-> <<stops[i].coordinates[1], 1>>,
     lng |-> <<stops[i].coordinates[2], 1>>,
     nearestStops |->
         <<stops[i].stopName,
           IF i < Len(stops) THEN stops[i + 1].stopName
           ELSE stops[i].stopName>>]

Least(S) == CHOOSE x \in S : \A y \in S : x <= y

\* getTrainPositionAtTime without the test of the last arrival.
getTrainPositionAtTime_NoArrivalTest(stops, target) ==
    IF Len(stops) < 2 THEN <<>>
    ELSE IF target < stopTimesOf(stops)[1] THEN <<>>
    ELSE IF legsAt(stops, target) # {}
    THEN <<positionOnLeg(stops, target, Least(legsAt(stops, target)))>>
    ELSE IF stopsNear(stops, target) # {}
    THEN <<positionAtStop(stops, Least(stopsNear(stops, target)))>>
    ELSE <<>>

\* getTrainPositionAtTime that takes the last leg holding the target.
getTrainPositionAtTime_LastLeg(stops, target) ==
    IF Len(stops) < 2 THEN <<>>
    ELSE IF notInTransit(stops, target) THEN <<>>
    ELSE IF legsAt(stops, target) # {}
    THEN <<positionOnLeg(stops, target,
                         -Least({-i : i \in legsAt(stops, target)}))>>
    ELSE IF stopsNear(stops, target) # {}
    THEN <<positionAtStop(stops, Least(stopsNear(stops, target)))>>
    ELSE <<>>

\* Lines 214-276.
getTrainPositionAtTime(stops, target) ==
    IF Len(stops) < 2 THEN <<>>
    ELSE IF notInTransit(stops, target) THEN <<>>
    ELSE IF legsAt(stops, target) # {}
    THEN <<positionOnLeg(stops, target, Least(legsAt(stops, target)))>>
    ELSE IF stopsNear(stops, target) # {}
    THEN <<positionAtStop(stops, Least(stopsNear(stops, target)))>>
    ELSE <<>>

-----------------------------------------------------------------------------
(* Inputs of getTrainPositionAtTime: trips of one to MaxTripStops stops    *)
(* as processSchedules makes them, and instants at, next to and between    *)
(* the instants of the stops.                                              *)

MaxTripStops == 3

StationNames == <<"A", "B", "C", "D">>

StationCoordinates == << <<40, -90>>, <<42, -88>>, <<41, -85>>, <<44, -80>> >>

\* The arrival and the departure of a stop: a passage, a halt of five
\* minutes, a halt over midnight, and a day later.
StopTimings ==
    {<< <<10, 0, 0>>, <<10, 0, 0>> >>,
     << <<10, 30, 0>>, <<10, 35, 0>> >>,
     << <<11, 0, 0>>, <<11, 0, 0>> >>,
     << <<23, 50, 0>>, <<24, 10, 0>> >>,
     << <<25, 0, 0>>, <<25, 0, 0>> >>}

\* The k-th stop of a trip, as the map callback of processSchedules makes
\* it (gtfsProcessor.ts lines 389-398).
TripStopOf(k, timing) ==
    [stopId        |-> k,
     stopName      |-> StationNames[k],
     stopSequence  |-> k,
     coordinates   |-> StationCoordinates[k],
     timezone      |-> "America/Chicago",
     arrivalTime   |-> GTFSTimeText(timing[1]),
     departureTime |-> GTFSTimeText(timing[2]),
     dayOffset     |-> parseGTFSTime(GTFSTimeText(timing[1])).dayOffset]

TripsOfLen(n) ==
    {[k \in 1..n |-> TripStopOf(k, timings[k])] :
        timings \in [1..n -> StopTimings]}

PositionTrips == UNION {TripsOfLen(n) : n \in 1..MaxTripStops}

\* The instants of the stops of a trip.
AnchorsOf(stops) ==
    {gtfsTimeToDate(stops[i].departureTime, stops[i].dayOffset) :
        i \in 1..Len(stops)}
    \cup {gtfsTimeToDate(stops[i].arrivalTime, stops[i].dayOffset) :
        i \in 1..Len(stops)}

\* A quarter past ten, and every instant of a stop with the seconds next to
\* it.
TargetsOf(stops) ==
    {36900} \cup UNION {{t - 1, t, t + 1} : t \in AnchorsOf(stops)}

InitPosition ==
    /\ tripStops \in PositionTrips
    /\ targetTime \in TargetsOf(tripStops)
    /\ position = <<>>
    /\ positionPc = "call"
    /\ IdleBesidesPosition

\* One call; positionPc names the return it took.
Returns(pc) ==
    /\ positionPc = "call"
    /\ position' = getTrainPositionAtTime(tripStops, targetTime)
    /\ positionPc' = pc
    /\ UNCHANGED <<tripStops, targetTime, besidesPosition>>

\* Lines 221-223.
PositionTooFewStops ==
    /\ Len(tripStops) < 2
    /\ Returns("too-few-stops")

\* Lines 233-235.
PositionNotInTransit ==
    /\ Len(tripStops) >= 2
    /\ notInTransit(tripStops, targetTime)
    /\ Returns("not-in-transit")

\* Lines 238-260.
PositionBetweenStops ==
    /\ Len(tripStops) >= 2
    /\ ~notInTransit(tripStops, targetTime)
    /\ legsAt(tripStops, targetTime) # {}
    /\ Returns("between-stops")

\* Lines 263-274.
PositionAtStop ==
    /\ Len(tripStops) >= 2
    /\ ~notInTransit(tripStops, targetTime)
    /\ legsAt(tripStops, targetTime) = {}
    /\ stopsNear(tripStops, targetTime) # {}
    /\ Returns("at-stop")

\* Line 276.
PositionNowhere ==
    /\ Len(tripStops) >= 2
    /\ ~notInTransit(tripStops, targetTime)
    /\ legsAt(tripStops, targetTime) = {}
    /\ stopsNear(tripStops, targetTime) = {}
    /\ Returns("nowhere")

NextPosition ==
    \/ PositionTooFewStops
    \/ PositionNotInTransit
    \/ PositionBetweenStops
    \/ PositionAtStop
    \/ PositionNowhere

SpecPosition == InitPosition /\ [][NextPosition]_vars

FirstDeparture == stopTimesOf(tripStops)[1]

LastArrival == lastArrivalOf(tripStops)

Answered == positionPc \notin {"idle", "call"} /\ Len(tripStops) >= 2

\* C12 (as claimed): for a trip of at least two stops the answer is null
\* for every instant before the first departure and for every instant after
\* the last arrival, and is a position at the first departure.
C12_TransitBoundary ==
    Answered =>
        /\ targetTime < FirstDeparture => position = <<>>
        /\ targetTime > LastArrival => position = <<>>
        /\ targetTime = FirstDeparture => position # <<>>

\* C12 (amended): the same, the answer at the first departure being a
\* position when the first departure is not after the last arrival.
C12_TransitBoundaryOfOrderedTrip ==
    Answered =>
        /\ targetTime < FirstDeparture => position = <<>>
        /\ targetTime > LastArrival => position = <<>>
        /\ targetTime = FirstDeparture /\ FirstDeparture <= LastArrival =>
               position # <<>>

\* C12 witness: asked for the first departure of a trip that ends later,
\* the answer is a position; a second earlier it would not be.
C12_Witness ==
    /\ Answered
    /\ targetTime = FirstDeparture
    /\ FirstDeparture < LastArrival
    /\ position # <<>>
    /\ getTrainPositionAtTime(tripStops, targetTime - 1) = <<>>

\* The legs [departure of stop i, arrival of stop i+1] that hold the target.
LegsHolding ==
    {i \in 1..(Len(tripStops) - 1) :
        /\ gtfsTimeToDate(tripStops[i].departureTime, tripStops[i].dayOffset)
               <= targetTime
        /\ targetTime <= gtfsTimeToDate(tripStops[i + 1].arrivalTime,
                                        tripStops[i + 1].dayOffset)}

\* coord_i + (coord_{i+1} - coord_i) * (t - dep_i) / (arr_{i+1} - dep_i) for
\* number k of the coordinates; coord_i when the leg takes no time.
InterpolatedAt(i, k) ==
    LET dep == gtfsTimeToDate(tripStops[i].departureTime,
                              tripStops[i].dayOffset)
        arr == gtfsTimeToDate(tripStops[i + 1].arrivalTime,
                              tripStops[i + 1].dayOffset)
        a   == tripStops[i].coordinates[k]
        b   == tripStops[i + 1].coordinates[k]
    IN  IF arr = dep THEN Ratio(a, 1)
        ELSE Ratio(a * (arr - dep) + (b - a) * (targetTime - dep), arr - dep)

IsInterpolated(i) ==
    /\ position # <<>>
    /\ position[1].lat = InterpolatedAt(i, 1)
    /\ position[1].lng = InterpolatedAt(i, 2)
    /\ position[1].nearestStops
           = <<tripStops[i].stopName, tripStops[i + 1].stopName>>

\* The trip A dep 10:00, B arr 10:30 dep 10:35, C arr 11:00.
ExampleTrip ==
    [k \in 1..3 |->
        TripStopOf(k, << << <<10, 0, 0>>, <<10, 0, 0>> >>,
                         << <<10, 30, 0>>, <<10, 35, 0>> >>,
                         << <<11, 0, 0>>, <<11, 0, 0>> >> >>[k])]

ExampleMidpoint ==
    tripStops = ExampleTrip /\ targetTime = 36900 =>
        /\ position # <<>>
        /\ position[1].lat = <<41, 1>> /\ position[1].lng = <<-89, 1>>
        /\ position[1].nearestStops = <<"A", "B">>

\* C13 (as claimed): when the target lies on a leg, the answer is the
\* interpolated coordinate of the first such leg and names its two stops;
\* the example trip at 10:15 is at the midpoint of A and B.
C13_Interpolation ==
    Answered =>
        /\ LegsHolding # {} => IsInterpolated(Least(LegsHolding))
        /\ ExampleMidpoint

\* C13 (amended): the same for a target that is neither before the first
\* departure nor after the last arrival of the trip.
C13_InterpolationInTransit ==
    Answered =>
        /\ LegsHolding # {} /\ FirstDeparture <= targetTime
               /\ targetTime <= LastArrival =>
               IsInterpolated(Least(LegsHolding))
        /\ ExampleMidpoint

\* C13 witness: the example trip asked at 10:15 is halfway from A to B.
C13_Witness ==
    /\ Answered
    /\ tripStops = ExampleTrip /\ targetTime = 36900
    /\ position = <<[lat |-> <<41, 1>>, lng |-> <<-89, 1>>,
                     nearestStops |-> <<"A", "B">>]>>

-----------------------------------------------------------------------------
(* sunlight.ts: calculateSunlightPhase.  The four instants come from the   *)
(* SunCalc library, which is no part of the program: they are an input.    *)
(* SunCalc gives an invalid Date (NaN) for nightEnd and night where the    *)
(* sun does not sink 18 degrees below the horizon that day.                *)

\* a >= b and a < b of two Dates: false when one of them is invalid.
DateGeq(a, b) == a # NaN /\ b # NaN /\ a >= b

DateLess(a, b) == a # NaN /\ b # NaN /\ a < b

\* calculateSunlightPhase with the sunrise itself left out of the day.
calculateSunlightPhase_DayAfterSunrise(times, time) ==
    IF DateGeq(time, times.nightEnd) /\ DateLess(time, times.sunrise)
    THEN "dawn"
    ELSE IF DateLess(times.sunrise, time) /\ DateLess(time, times.sunset)
    THEN "day"
    ELSE IF DateGeq(time, times.sunset) /\ DateLess(time, times.night)
    THEN "dusk"
    ELSE "night"

\* Lines 131-151, times being SunCalc.getTimes(time, lat, lng).
calculateSunlightPhase(times, time) ==
    IF DateGeq(time, times.nightEnd) /\ DateLess(time, times.sunrise)
    THEN "dawn"
    ELSE IF DateGeq(time, times.sunrise) /\ DateLess(time, times.sunset)
    THEN "day"
    ELSE IF DateGeq(time, times.sunset) /\ DateLess(time, times.night)
    THEN "dusk"
    ELSE "night"

MaxInstant == 4    \* the instants of the model are 0..MaxInstant

Instants == 0..MaxInstant

\* What SunCalc.getTimes may return: sunrise not after sunset, the end of
\* the night not after sunrise and its start not before sunset, or no such
\* instants at all.
SunTimes ==
    {t \in [nightEnd : Instants \cup {NaN}, sunrise : Instants,
            sunset : Instants, night : Instants \cup {NaN}] :
        /\ t.sunrise <= t.sunset
        /\ t.nightEnd # NaN => t.nightEnd <= t.sunrise
        /\ t.night # NaN => t.sunset <= t.night}

InitPhase ==
    /\ sunTimes \in SunTimes
    /\ phaseTime \in Instants
    /\ sunPhase = ""
    /\ phasePc = "call"
    /\ IdleBesidesPhase

PhaseIs(phase) ==
    /\ sunPhase' = phase
    /\ phasePc' = "done"
    /\ UNCHANGED <<sunTimes, phaseTime, besidesPhase>>

\* Lines 136-138.
PhaseDawn ==
    /\ phasePc = "call"
    /\ calculateSunlightPhase(sunTimes, phaseTime) = "dawn"
    /\ PhaseIs("dawn")

\* Lines 141-143.
PhaseDay ==
    /\ phasePc = "call"
    /\ calculateSunlightPhase(sunTimes, phaseTime) = "day"
    /\ PhaseIs("day")

\* Lines 146-148.
PhaseDusk ==
    /\ phasePc = "call"
    /\ calculateSunlightPhase(sunTimes, phaseTime) = "dusk"
    /\ PhaseIs("dusk")

\* Line 150.
PhaseNight ==
    /\ phasePc = "call"
    /\ calculateSunlightPhase(sunTimes, phaseTime) = "night"
    /\ PhaseIs("night")

NextPhase ==
    \/ PhaseDawn
    \/ PhaseDay
    \/ PhaseDusk
    \/ PhaseNight

SpecPhase == InitPhase /\ [][NextPhase]_vars

\* The four instants exist.
FourInstants == sunTimes.nightEnd # NaN /\ sunTimes.night # NaN

\* C14: with the four instants nightEnd <= sunrise <= sunset <= night the
\* phase is dawn on [nightEnd, sunrise), day on [sunrise, sunset), dusk on
\* [sunset, night) and night elsewhere; at a sunrise that is before the
\* sunset it is day, and the instant before a sunrise that is after the end
\* of the night is dawn.
C14_PhaseBoundaries ==
    phasePc = "done" /\ FourInstants =>
        /\ sunPhase \in {"dawn", "day", "dusk", "night"}
        /\ sunPhase = "dawn" <=>
               sunTimes.nightEnd <= phaseTime /\ phaseTime < sunTimes.sunrise
        /\ sunPhase = "day" <=>
               sunTimes.sunrise <= phaseTime /\ phaseTime < sunTimes.sunset
        /\ sunPhase = "dusk" <=>
               sunTimes.sunset <= phaseTime /\ phaseTime < sunTimes.night
        /\ sunPhase = "night" <=>
               phaseTime < sunTimes.nightEnd \/ phaseTime >= sunTimes.night
        /\ phaseTime = sunTimes.sunrise /\ sunTimes.sunrise < sunTimes.sunset
               => sunPhase = "day"
        /\ phaseTime = sunTimes.sunrise - 1
               /\ sunTimes.nightEnd < sunTimes.sunrise => sunPhase = "dawn"

\* C14 witness: at the sunrise of a day with a dawn it is day, and the
\* instant before was dawn.
C14_Witness ==
    /\ phasePc = "done" /\ FourInstants
    /\ sunTimes.nightEnd < sunTimes.sunrise
    /\ sunTimes.sunrise < sunTimes.sunset
    /\ sunTimes.sunset < sunTimes.night
    /\ phaseTime = sunTimes.sunrise
    /\ sunPhase = "day"
    /\ calculateSunlightPhase(sunTimes, phaseTime - 1) = "dawn"

-----------------------------------------------------------------------------
(* gtfsProcessor.ts: simplifyShape and perpendicularDistance.  Coordinates *)
(* are points of a grid of whole degrees.  A distance is kept as its       *)
(* square, a fraction <<numerator, denominator>>, and the tolerance as a   *)
(* fraction: comparing squares compares the distances.                     *)

\* a > b for two fractions with positive denominators.
Greater(a, b) == a[1] * b[2] > b[1] * a[2]

Square(a) == <<a[1] * a[1], a[2] * a[2]>>

\* perpendicularDistance that measures to the start of the line.
perpendicularDistance_ToStart(point, lineStart, lineEnd) ==
    <<(point[1] - lineStart[1]) * (point[1] - lineStart[1])
          + (point[2] - lineStart[2]) * (point[2] - lineStart[2]), 1>>

\* Lines 489-511; the value is the square of the distance.
perpendicularDistance(point, lineStart, lineEnd) ==
    LET px == point[1]
        py == point[2]
        x1 == lineStart[1]
        y1 == lineStart[2]
        dx == lineEnd[1] - x1
        dy == lineEnd[2] - y1
        len == dx * dx + dy * dy
        \* t = dot / len; closestX = x1 + t * dx = (x1 * len + dot * dx) / len
        dot == (px - x1) * dx + (py - y1) * dy
        ex  == px * len - (x1 * len + dot * dx)
        ey  == py * len - (y1 * len + dot * dy)
    IN  IF dx = 0 /\ dy = 0
        THEN <<(px - x1) * (px - x1) + (py - y1) * (py - y1), 1>>
        ELSE <<ex * ex + ey * ey, len * len>>

\* Lines 465-471: the distance of point i from the line first - last.
distanceAt(coordinates, i) ==
    perpendicularDistance(coordinates[i], coordinates[1],
                          coordinates[Len(coordinates)])

\* Lines 459-471: the loop keeps the first point that is farther than
\* every point before it and farther than 0; 0 when there is none.
maxIndexOf(coordinates) ==
    LET inner  == 2..(Len(coordinates) - 1)
        record == {i \in inner :
                      /\ Greater(distanceAt(coordinates, i), <<0, 1>>)
                      /\ \A j \in inner :
                             ~Greater(distanceAt(coordinates, j),
                                      distanceAt(coordinates, i))}
    IN  IF record = {} THEN 0 ELSE Least(record)

maxDistanceOf(coordinates) ==
    IF maxIndexOf(coordinates) = 0 THEN <<0, 1>>
    ELSE distanceAt(coordinates, maxIndexOf(coordinates))

\* Line 474.
exceedsTolerance(coordinates, tolerance) ==
    Greater(maxDistanceOf(coordinates), Square(tolerance))

RECURSIVE simplifyShape_JoinTwice(_, _)
\* simplifyShape that keeps the point of the join in both halves.
simplifyShape_JoinTwice(coordinates, tolerance) ==
    IF Len(coordinates) <= 2 THEN coordinates
    ELSE IF exceedsTolerance(coordinates, tolerance)
    THEN simplifyShape_JoinTwice(
             SubSeq(coordinates, 1, maxIndexOf(coordinates)), tolerance)
         \o simplifyShape_JoinTwice(
             SubSeq(coordinates, maxIndexOf(coordinates), Len(coordinates)),
             tolerance)
    ELSE <<coordinates[1], coordinates[Len(coordinates)]>>

RECURSIVE simplifyShape_ClosedToOnePoint(_, _)
\* simplifyShape that collapses a list whose ends are equal to one point.
simplifyShape_ClosedToOnePoint(coordinates, tolerance) ==
    IF Len(coordinates) <= 2 THEN coordinates
    ELSE IF exceedsTolerance(coordinates, tolerance)
    THEN LET left  == simplifyShape_ClosedToOnePoint(
                          SubSeq(coordinates, 1, maxIndexOf(coordinates)),
                          tolerance)
             right == simplifyShape_ClosedToOnePoint(
                          SubSeq(coordinates, maxIndexOf(coordinates),
                                 Len(coordinates)), tolerance)
         IN  SubSeq(left, 1, Len(left) - 1) \o right
    ELSE IF coordinates[1] = coordinates[Len(coordinates)]
    THEN <<coordinates[1]>>
    ELSE <<coordinates[1], coordinates[Len(coordinates)]>>

RECURSIVE simplifyShape(_, _)
\* Lines 450-484.
simplifyShape(coordinates, tolerance) ==
    IF Len(coordinates) <= 2 THEN coordinates
    ELSE IF exceedsTolerance(coordinates, tolerance)
    THEN LET left  == simplifyShape(
                          SubSeq(coordinates, 1, maxIndexOf(coordinates)),
                          tolerance)
             right == simplifyShape(
                          SubSeq(coordinates, maxIndexOf(coordinates),
                                 Len(coordinates)), tolerance)
         IN  SubSeq(left, 1, Len(left) - 1) \o right
    ELSE <<coordinates[1], coordinates[Len(coordinates)]>>

MaxShapePoints == 4    \* points of a shape

\* A grid of three by three points.
GridPoints == (0..2) \X (0..2)

ShapePaths == UNION {[1..n -> GridPoints] : n \in 0..MaxShapePoints}

\* 0, a half, 1 and 3 degrees.
Tolerances == {<<0, 1>>, <<1, 2>>, <<1, 1>>, <<3, 1>>}

InitSimplify ==
    /\ shapePath \in ShapePaths
    /\ pathTolerance \in Tolerances
    /\ simplified = <<>>
    /\ simplifyPc = "call"
    /\ IdleBesidesSimplify

Simplified(pc) ==
    /\ simplified' = simplifyShape(shapePath, pathTolerance)
    /\ simplifyPc' = pc
    /\ UNCHANGED <<shapePath, pathTolerance, besidesSimplify>>

\* Lines 454-456.
SimplifyShort ==
    /\ simplifyPc = "call"
    /\ Len(shapePath) <= 2
    /\ Simplified("short")

\* Lines 474-479.
SimplifySplit ==
    /\ simplifyPc = "call"
    /\ Len(shapePath) > 2
    /\ exceedsTolerance(shapePath, pathTolerance)
    /\ Simplified("split")

\* Lines 480-483.
SimplifyCollapse ==
    /\ simplifyPc = "call"
    /\ Len(shapePath) > 2
    /\ ~exceedsTolerance(shapePath, pathTolerance)
    /\ Simplified("collapsed")

NextSimplify ==
    \/ SimplifyShort
    \/ SimplifySplit
    \/ SimplifyCollapse

SpecSimplify == InitSimplify /\ [][NextSimplify]_vars

\* Three points on one straight line (two equal points are on a line with
\* every third).
OnOneLine(a, b, c) ==
    (b[1] - a[1]) * (c[2] - a[2]) = (b[2] - a[2]) * (c[1] - a[1])

Collinear(path) ==
    \A i, j, k \in 1..Len(path) : OnOneLine(path[i], path[j], path[k])

SimplifyDone == simplifyPc \notin {"idle", "call"}

PositiveTolerance == pathTolerance[1] > 0

\* C15 (as claimed): a list of at least 2 points on one straight line is
\* simplified with a positive tolerance to its first and its last point.
C15_CollinearCollapses ==
    SimplifyDone /\ Len(shapePath) >= 2 /\ Collinear(shapePath)
        /\ PositiveTolerance =>
        simplified = <<shapePath[1], shapePath[Len(shapePath)]>>

\* C15 (amended): the same for a list whose first and last points differ.
C15_OpenCollinearCollapses ==
    SimplifyDone /\ Len(shapePath) >= 2 /\ Collinear(shapePath)
        /\ shapePath[1] # shapePath[Len(shapePath)] /\ PositiveTolerance =>
        simplified = <<shapePath[1], shapePath[Len(shapePath)]>>

\* C15 witness: four points of a line, the inner ones out of order,
\* collapsed to the two ends.
C15_Witness ==
    /\ simplifyPc = "collapsed"
    /\ shapePath = << <<0, 0>>, <<2, 2>>, <<1, 1>>, <<2, 2>> >>
    /\ pathTolerance = <<1, 2>>
    /\ simplified = << <<0, 0>>, <<2, 2>> >>

\* C16 (as claimed): a list whose points are not all on one line keeps its
\* number of points when simplified with tolerance 0.
C16_ZeroToleranceKeepsCount ==
    SimplifyDone /\ ~Collinear(shapePath) /\ pathTolerance = <<0, 1>> =>
        Len(simplified) = Len(shapePath)

NoThreeOnOneLine(path) ==
    \A i, j, k \in 1..Len(path) :
        i < j /\ j < k => ~OnOneLine(path[i], path[j], path[k])

\* C16 (amended): a list of which no three points lie on one line is
\* returned unchanged when simplified with tolerance 0.
C16_ZeroToleranceKeepsGeneralPosition ==
    SimplifyDone /\ NoThreeOnOneLine(shapePath) /\ pathTolerance = <<0, 1>> =>
        simplified = shapePath

\* C16 witness: four points, no three of them on a line, all kept.
C16_Witness ==
    /\ simplifyPc = "split"
    /\ Len(shapePath) = 4
    /\ NoThreeOnOneLine(shapePath)
    /\ pathTolerance = <<0, 1>>
    /\ simplified = shapePath

-----------------------------------------------------------------------------
(* determineDirectionAxis on the paths of a grid of whole degrees:         *)
(* latitudes 40..42, longitudes -90..-88.                                  *)

MaxAxisPoints == 3    \* points of a path

AxisPoints == (40..42) \X ((0 - 90)..(0 - 88))

AxisPaths == UNION {[1..n -> AxisPoints] : n \in 0..MaxAxisPoints}

InitAxis ==
    /\ axisPath \in AxisPaths
    /\ axisResult = ""
    /\ axisPc = "call"
    /\ IdleBesidesAxis

AxisReturned(pc) ==
    /\ axisResult' = determineDirectionAxis(axisPath)
    /\ axisPc' = pc
    /\ UNCHANGED <<axisPath, besidesAxis>>

latRangeOf(coordinates) ==
    SpanOf([i \in 1..Len(coordinates) |-> coordinates[i][1]])

lonRangeOf(coordinates) ==
    SpanOf([i \in 1..Len(coordinates) |-> coordinates[i][2]])

bearingOf(coordinates) ==
    calculateBearing(coordinates[1], coordinates[Len(coordinates)])

\* Lines 51-54.
AxisTooFewPoints ==
    /\ axisPc = "call"
    /\ Len(axisPath) < 2
    /\ AxisReturned("too-few-points")

\* Lines 74-75.
AxisNorthSouth ==
    /\ axisPc = "call"
    /\ Len(axisPath) >= 2
    /\ isNorthSouthBearing(bearingOf(axisPath))
    /\ 10 * latRangeOf(axisPath) >= 7 * lonRangeOf(axisPath)
    /\ AxisReturned("north-south-bearing")

\* Lines 76-78.
AxisEastWest ==
    /\ axisPc = "call"
    /\ Len(axisPath) >= 2
    /\ ~isNorthSouthBearing(bearingOf(axisPath))
    /\ 10 * lonRangeOf(axisPath) >= 7 * latRangeOf(axisPath)
    /\ AxisReturned("east-west-bearing")

\* Lines 80-82.
AxisLargerSpan ==
    /\ axisPc = "call"
    /\ Len(axisPath) >= 2
    /\ isNorthSouthBearing(bearingOf(axisPath)) =>
           10 * latRangeOf(axisPath) < 7 * lonRangeOf(axisPath)
    /\ ~isNorthSouthBearing(bearingOf(axisPath)) =>
           10 * lonRangeOf(axisPath) < 7 * latRangeOf(axisPath)
    /\ AxisReturned("larger-span")

NextAxis ==
    \/ AxisTooFewPoints
    \/ AxisNorthSouth
    \/ AxisEastWest
    \/ AxisLargerSpan

SpecAxis == InitAxis /\ [][NextAxis]_vars

AxisDone == axisPc \notin {"idle", "call"}

\* The spans of the path: the difference of the greatest and the least
\* latitude, and of the greatest and the least longitude.
LatSpan ==
    LET lats == {axisPath[i][1] : i \in 1..Len(axisPath)}
    IN  CHOOSE d \in 0..2 : \E a, b \in lats :
            b - a = d /\ \A c \in lats : a <= c /\ c <= b

LonSpan ==
    LET lons == {axisPath[i][2] : i \in 1..Len(axisPath)}
    IN  CHOOSE d \in 0..2 : \E a, b \in lons :
            b - a = d /\ \A c \in lons : a <= c /\ c <= b

\* The bearing from the first to the last point is within 45 degrees of
\* north or of south.
NorthSouthLike == isNorthSouthBearing(bearingOf(axisPath))

\* The path only moves north, or only moves east.
OnlyNorth ==
    /\ Len(axisPath) >= 2
    /\ \A i \in 1..(Len(axisPath) - 1) :
           /\ axisPath[i + 1][1] > axisPath[i][1]
           /\ axisPath[i + 1][2] = axisPath[i][2]

OnlyEast ==
    /\ Len(axisPath) >= 2
    /\ \A i \in 1..(Len(axisPath) - 1) :
           /\ axisPath[i + 1][2] > axisPath[i][2]
           /\ axisPath[i + 1][1] = axisPath[i][1]

\* C17: a path of fewer than 2 points is east-west; a longer one is
\* north-south when its bearing is north-south-like and LAT >= 0.7 LON,
\* east-west when its bearing is east-west-like and LON >= 0.7 LAT, and has
\* the axis of the larger span otherwise; a path that only moves north is
\* north-south and one that only moves east is east-west.
C17_AxisDecision ==
    AxisDone =>
        /\ Len(axisPath) < 2 => axisResult = "east-west"
        /\ Len(axisPath) >= 2 =>
               axisResult =
                   IF NorthSouthLike /\ 10 * LatSpan >= 7 * LonSpan
                   THEN "north-south"
                   ELSE IF ~NorthSouthLike /\ 10 * LonSpan >= 7 * LatSpan
                   THEN "east-west"
                   ELSE IF LonSpan > LatSpan THEN "east-west"
                   ELSE IF LatSpan > LonSpan THEN "north-south"
                   ELSE "neither"
        /\ OnlyNorth => axisResult = "north-south"
        /\ OnlyEast => axisResult = "east-west"

\* C17 witness: a path that starts and ends on one meridian, heading north,
\* but spans more longitude than latitude: east-west by the larger span.
C17_Witness ==
    /\ axisPc = "larger-span"
    /\ NorthSouthLike
    /\ LonSpan > LatSpan
    /\ axisResult = "east-west"

-----------------------------------------------------------------------------
(* gtfsLoader: parseCSVLine and the parsing part of parseGTFSFile (the     *)
(* text is what response.text() gave).                                     *)

Comma == ","

Quote == "\""

Newline == "\n"

Blank == " "

RECURSIVE trimStart(_)
trimStart(text) ==
    IF text # <<>> /\ Head(text) = Blank THEN trimStart(Tail(text)) ELSE text

RECURSIVE trimEnd(_)
trimEnd(text) ==
    IF text # <<>> /\ text[Len(text)] = Blank
    THEN trimEnd(SubSeq(text, 1, Len(text) - 1)) ELSE text

\* String.prototype.trim.
trim(text) == trimEnd(trimStart(text))

RECURSIVE parseCSVLineFrom_SplitsInQuotes(_, _, _)
parseCSVLineFrom_SplitsInQuotes(line, i, state) ==
    IF i > Len(line)
    THEN Append(state.result, trim(state.current))
    ELSE IF line[i] = Quote
    THEN parseCSVLineFrom_SplitsInQuotes(line, i + 1,
             [state EXCEPT !.inQuotes = ~state.inQuotes])
    ELSE IF line[i] = Comma
    THEN parseCSVLineFrom_SplitsInQuotes(line, i + 1,
             [state EXCEPT !.result = Append(state.result,
                                             trim(state.current)),
                           !.current = <<>>])
    ELSE parseCSVLineFrom_SplitsInQuotes(line, i + 1,
             [state EXCEPT !.current = Append(state.current, line[i])])

\* parseCSVLine that splits at every comma.
parseCSVLine_SplitsInQuotes(line) ==
    parseCSVLineFrom_SplitsInQuotes(line, 1,
        [result |-> <<>>, current |-> <<>>, inQuotes |-> FALSE])

RECURSIVE parseCSVLineFrom(_, _, _)
\* Lines 302-313: the loop over the characters, from character i on, and
\* the push of the last field (line 316).
parseCSVLineFrom(line, i, state) ==
    IF i > Len(line)
    THEN Append(state.result, trim(state.current))
    ELSE IF line[i] = Quote
    THEN parseCSVLineFrom(line, i + 1,
             [state EXCEPT !.inQuotes = ~state.inQuotes])
    ELSE IF line[i] = Comma /\ ~state.inQuotes
    THEN parseCSVLineFrom(line, i + 1,
             [state EXCEPT !.result = Append(state.result,
                                             trim(state.current)),
                           !.current = <<>>])
    ELSE parseCSVLineFrom(line, i + 1,
             [state EXCEPT !.current = Append(state.current, line[i])])

\* Lines 297-319.
parseCSVLine(line) ==
    parseCSVLineFrom(line, 1,
        [result |-> <<>>, current |-> <<>>, inQuotes |-> FALSE])

\* Line 337: text.split('\n').filter(line => line.trim().length > 0).
linesOf(text) ==
    SelectSeq(split(text, Newline), LAMBDA line : Len(trim(line)) > 0)

\* Lines 351-354: headers.forEach sets row[header] = values[index] || '',
\* a later header of the same name writing over an earlier one.
rowOf(headers, values) ==
    [header \in Range(headers) |->
        LET index == CHOOSE i \in 1..Len(headers) :
                         /\ headers[i] = header
                         /\ \A j \in (i + 1)..Len(headers) :
                                headers[j] # header
        IN  IF index <= Len(values) THEN values[index] ELSE <<>>]

\* Lines 336-359, the row mapper being the identity.
rowsOfText(text) ==
    LET lines == linesOf(text)
    IN  IF Len(lines) = 0 THEN <<>>
        ELSE [k \in 1..(Len(lines) - 1) |->
                 rowOf(parseCSVLine(lines[1]), parseCSVLine(lines[k + 1]))]

MaxTextLen == 6    \* characters of a feed file

\* A letter, a comma, a double quote, a line feed and a blank.
CsvChars == {"a", Comma, Quote, Newline, Blank}

CsvTexts == UNION {[1..n -> CsvChars] : n \in 0..MaxTextLen}

InitCsv ==
    /\ csvText \in CsvTexts
    /\ csvRows = <<>>
    /\ csvPc = "call"
    /\ IdleBesidesCsv

\* Lines 339-341.
CsvNoLines ==
    /\ csvPc = "call"
    /\ Len(linesOf(csvText)) = 0
    /\ csvRows' = rowsOfText(csvText)
    /\ csvPc' = "no-lines"
    /\ UNCHANGED <<csvText, besidesCsv>>

\* Lines 344-361.
CsvParsed ==
    /\ csvPc = "call"
    /\ Len(linesOf(csvText)) > 0
    /\ csvRows' = rowsOfText(csvText)
    /\ csvPc' = "parsed"
    /\ UNCHANGED <<csvText, besidesCsv>>

NextCsv ==
    \/ CsvNoLines
    \/ CsvParsed

SpecCsv == InitCsv /\ [][NextCsv]_vars

CsvDone == csvPc \notin {"idle", "call"}

\* The lines of the file that hold more than blanks, in file order.
NonBlankLines ==
    SelectSeq(split(csvText, Newline),
              LAMBDA line : \E i \in 1..Len(line) : line[i] # Blank)

\* The commas of a line that are not inside double quotes: those with an
\* even number of quotes before them.
SplittingCommas(line) ==
    {i \in 1..Len(line) :
        /\ line[i] = Comma
        /\ Cardinality({j \in 1..(i - 1) : line[j] = Quote}) % 2 = 0}

\* The k-th splitting comma of a line; 0 before the first and the place
\* after the line's end after the last.
CutAt(line, k) ==
    IF k = 0 THEN 0
    ELSE IF k > Cardinality(SplittingCommas(line)) THEN Len(line) + 1
    ELSE CHOOSE i \in SplittingCommas(line) :
             Cardinality({j \in SplittingCommas(line) : j <= i}) = k

FieldCount(line) == Cardinality(SplittingCommas(line)) + 1

\* The k-th field of a line: what is between two splitting commas, without
\* its quotes and the blanks around it; empty when the line has no k-th
\* field.
FieldAt(line, k) ==
    IF k > FieldCount(line) THEN <<>>
    ELSE trim(SelectSeq(SubSeq(line, CutAt(line, k - 1) + 1,
                               CutAt(line, k) - 1),
                        LAMBDA c : c # Quote))

\* Row k is made of the k-th non-blank line after the header: it has the
\* header's fields as its keys (the last field of a name counts).
RowFromLine(row, header, line) ==
    /\ DOMAIN row = {FieldAt(header, i) : i \in 1..FieldCount(header)}
    /\ \A i \in 1..FieldCount(header) :
           (\A j \in (i + 1)..FieldCount(header) :
                FieldAt(header, j) # FieldAt(header, i))
               => row[FieldAt(header, i)] = FieldAt(line, i)

\* C18: the parser returns one row per non-blank line after the header, in
\* file order; a field is what stands between two commas outside double
\* quotes, the quotes removed; a missing field is the empty string; an
\* empty text and a text of a header only give no rows.
C18_FeedParsing ==
    CsvDone =>
        /\ csvText = <<>> => csvRows = <<>>
        /\ Len(NonBlankLines) <= 1 => csvRows = <<>>
        /\ Len(NonBlankLines) >= 1 => Len(csvRows) = Len(NonBlankLines) - 1
        /\ \A k \in 1..Len(csvRows) :
               RowFromLine(csvRows[k], NonBlankLines[1], NonBlankLines[k + 1])

\* C18 witness: under the header a, the line "," is one field, a comma.
C18_Witness ==
    /\ csvPc = "parsed"
    /\ csvText = <<"a", Newline, Quote, Comma, Quote>>
    /\ Len(csvRows) = 1
    /\ csvRows[1][<<"a">>] = <<Comma>>

-----------------------------------------------------------------------------
(* gtfsLoader: loadAllGTFSData and its loaders, and the load cycle of      *)
(* GTFSDataProvider (loadData).  The provider always asks for              *)
(* filterToAmtrakTrains: true and loadStopTimes: true.  A cycle starts     *)
(* when no other cycle is running: from the effect after mounting, from    *)
(* the Retry button or from refresh.                                       *)

\* The four files of the Promise.all, in the order of their requests.
FirstFiles == <<"routes.txt", "stops.txt", "agency.txt", "calendar.txt">>

FeedFiles ==
    Range(FirstFiles) \cup {"trips.txt", "stop_times.txt", "shapes.txt"}

\* routes.txt: a train route of Amtrak, a bus route of Amtrak and a train
\* route of another agency.
RoutesFile ==
    <<[route_id |-> "r1", route_type |-> 2, agency_id |-> "51"],
      [route_id |-> "r2", route_type |-> 3, agency_id |-> "51"],
      [route_id |-> "r3", route_type |-> 2, agency_id |-> "174"]>>

\* The rows trips.txt may have: a trip of the train route, a trip of the
\* bus route and a trip of a route that is in no routes.txt.
TripRows ==
    <<[trip_id |-> "t1", route_id |-> "r1", shape_id |-> "s1"],
      [trip_id |-> "t2", route_id |-> "r2", shape_id |-> "s2"],
      [trip_id |-> "t3", route_id |-> "r9", shape_id |-> "s1"]>>

TripsFiles ==
    {SelectSeq(TripRows, LAMBDA row : row.trip_id \in keep) :
        keep \in SUBSET {"t1", "t2", "t3"}}

\* stop_times.txt: a row for each trip and one for a trip of no trips.txt.
StopTimesFile ==
    <<[trip_id |-> "t1", stop_id |-> 1], [trip_id |-> "t2", stop_id |-> 1],
      [trip_id |-> "t3", stop_id |-> 2], [trip_id |-> "t9", stop_id |-> 2]>>

\* shapes.txt: points of the shapes of the trips and of a shape of no trip.
ShapesFile ==
    <<[shape_id |-> "s1", shape_pt_sequence |-> 1],
      [shape_id |-> "s2", shape_pt_sequence |-> 1],
      [shape_id |-> "s9", shape_pt_sequence |-> 1],
      [shape_id |-> "s1", shape_pt_sequence |-> 2]>>

\* Lines 528-538.
loadRoutes(rows, filterToAmtrakTrains) ==
    IF filterToAmtrakTrains
    THEN SelectSeq(rows, LAMBDA route :
                       route.route_type = 2 /\ route.agency_id = "51")
    ELSE rows

\* loadTrips that returns every trip of the file.
loadTrips_Unfiltered(rows, routeIds) == rows

\* Lines 551-560, routeIds being given.
loadTrips(rows, routeIds) ==
    SelectSeq(rows, LAMBDA trip : trip.route_id \in Range(routeIds))

\* Lines 567-576, tripIds being given.
loadStopTimes(rows, tripIds) ==
    SelectSeq(rows, LAMBDA st : st.trip_id \in Range(tripIds))

\* Lines 584-594, shapeIds being given.
loadShapes(rows, shapeIds) ==
    SelectSeq(rows, LAMBDA shape : shape.shape_id \in Range(shapeIds))

\* The ids a loaded list hands to the next loader (lines 656, 663, 671).
routeIdsOf(rows) == [i \in 1..Len(rows) |-> rows[i].route_id]

tripIdsOf(rows) == [i \in 1..Len(rows) |-> rows[i].trip_id]

shapeIdsOfTrips(rows) == Dedup([i \in 1..Len(rows) |-> rows[i].shape_id])

NothingLoaded ==
    [routes |-> <<>>, trips |-> <<>>, stopTimes |-> <<>>, shapes |-> <<>>]

\* How a fetch can fail: fetch rejects, or the response is not ok.
Failures == {"network", "status"}

\* Part_005 line 333 and part_000 line 167: the message of the error.
errorMessageOf(file, failure) ==
    IF failure = "status" THEN <<"Failed to load", file>>
    ELSE <<"Failed to fetch">>

\* The catch and the finally of loadData that leave the spinner on.
catchAndFinally_StillLoading(state, errorMessage) ==
    [state EXCEPT !.error = <<errorMessage>>]

\* Part_000 lines 166-172: the catch and the finally of loadData.  error is
\* <<>> for null and <<message>> for a message.
catchAndFinally(state, errorMessage) ==
    [state EXCEPT !.error = <<errorMessage>>, !.loading = FALSE]

\* Part_000 lines 124-172 after loadAllGTFSData has resolved: the data is
\* processed and published, and the finally ends the cycle.  routes and
\* schedules stand for the processed routes and the schedule map by the
\* ids they were made from; publishedBy is the cycle that set them.
publish(state, data, n) ==
    [state EXCEPT !.rawData = <<data>>,
                  !.routes = routeIdsOf(data.routes),
                  !.schedules = tripIdsOf(data.trips),
                  !.publishedBy = n,
                  !.loading = FALSE]

\* Part_000 lines 124 and 166-172: the raw data is set, then the processing
\* throws (a malformed time, say) before setRoutes.
setRawDataOnly(state, data) ==
    catchAndFinally([state EXCEPT !.rawData = <<data>>],
                    "Invalid GTFS time format")

MaxCycles == 2    \* load cycles of one provider

\* After construction: the useState values of part_000 lines 101-106.
InitLoad ==
    /\ tripsFile \in TripsFiles
    /\ shapesWanted \in BOOLEAN
    /\ fetches = [file \in FeedFiles |-> "none"]
    /\ requested = <<>>
    /\ loaded = NothingLoaded
    /\ loadPc = "mounted"
    /\ cycle = 0
    /\ provider = [loading |-> TRUE, error |-> <<>>, rawData |-> <<>>,
                   routes |-> <<>>, schedules |-> <<>>, publishedBy |-> 0]
    /\ IdleBesidesLoad

\* Part_000 lines 109-122 and part_005 lines 632-651: loadData sets
\* loading, clears error and calls loadAllGTFSData, which requests the
\* first four files.
BeginCycle(wanted) ==
    /\ cycle < MaxCycles
    /\ shapesWanted' = wanted
    /\ cycle' = cycle + 1
    /\ provider' = [provider EXCEPT !.loading = TRUE, !.error = <<>>]
    /\ fetches' = [file \in FeedFiles |->
                      IF file \in Range(FirstFiles) THEN "pending"
                      ELSE "none"]
    /\ requested' = FirstFiles
    /\ loaded' = NothingLoaded
    /\ loadPc' = "first-files"
    /\ UNCHANGED <<tripsFile, besidesLoad>>

\* The effect of part_000 lines 175-177, after mounting.
StartLoad ==
    /\ loadPc = "mounted"
    /\ BeginCycle(shapesWanted)

\* The Retry button (part_000 line 233), refresh (line 251) or the effect
\* after loadShapes has changed, when the cycle before has ended.
Reload ==
    \E wanted \in BOOLEAN :
        /\ loadPc \in {"failed", "done"}
        /\ BeginCycle(wanted)

\* One of the first four files arrives and others are still awaited.
FirstFileArrives ==
    \E file \in Range(FirstFiles) :
        /\ loadPc = "first-files"
        /\ fetches[file] = "pending"
        /\ \E other \in Range(FirstFiles) \ {file} : fetches[other] = "pending"
        /\ fetches' = [fetches EXCEPT ![file] = "ok"]
        /\ UNCHANGED <<tripsFile, shapesWanted, requested, loaded, loadPc,
                       cycle, provider, besidesLoad>>

\* The last of the first four files arrives: the Promise.all resolves and
\* trips.txt is requested with the ids of the loaded routes (lines 646-657).
FirstFilesLoaded ==
    \E file \in Range(FirstFiles) :
        /\ loadPc = "first-files"
        /\ fetches[file] = "pending"
        /\ \A other \in Range(FirstFiles) \ {file} : fetches[other] = "ok"
        /\ fetches' = [fetches EXCEPT ![file] = "ok", !["trips.txt"] = "pending"]
        /\ requested' = Append(requested, "trips.txt")
        /\ loaded' = [loaded EXCEPT !.routes = loadRoutes(RoutesFile, TRUE)]
        /\ loadPc' = "trips"
        /\ UNCHANGED <<tripsFile, shapesWanted, cycle, provider, besidesLoad>>

\* Lines 657-664: trips.txt arrives, stop_times.txt is requested.
TripsLoaded ==
    /\ loadPc = "trips"
    /\ fetches["trips.txt"] = "pending"
    /\ fetches' = [fetches EXCEPT !["trips.txt"] = "ok",
                                  !["stop_times.txt"] = "pending"]
    /\ requested' = Append(requested, "stop_times.txt")
    /\ loaded' = [loaded EXCEPT
                      !.trips = loadTrips(tripsFile, routeIdsOf(loaded.routes))]
    /\ loadPc' = "stop-times"
    /\ UNCHANGED <<tripsFile, shapesWanted, cycle, provider, besidesLoad>>

\* Lines 664-672: stop_times.txt arrives, shapes.txt is requested.
StopTimesLoaded ==
    /\ loadPc = "stop-times"
    /\ fetches["stop_times.txt"] = "pending"
    /\ shapesWanted
    /\ fetches' = [fetches EXCEPT !["stop_times.txt"] = "ok",
                                  !["shapes.txt"] = "pending"]
    /\ requested' = Append(requested, "shapes.txt")
    /\ loaded' = [loaded EXCEPT
                      !.stopTimes = loadStopTimes(StopTimesFile,
                                                  tripIdsOf(loaded.trips))]
    /\ loadPc' = "shapes"
    /\ UNCHANGED <<tripsFile, shapesWanted, cycle, provider, besidesLoad>>

\* Lines 664-689 without shapes: stop_times.txt arrives and loadAllGTFSData
\* resolves.
StopTimesLoadedLast ==
    /\ loadPc = "stop-times"
    /\ fetches["stop_times.txt"] = "pending"
    /\ ~shapesWanted
    /\ fetches' = [fetches EXCEPT !["stop_times.txt"] = "ok"]
    /\ loaded' = [loaded EXCEPT
                      !.stopTimes = loadStopTimes(StopTimesFile,
                                                  tripIdsOf(loaded.trips))]
    /\ loadPc' = "resolved"
    /\ UNCHANGED <<tripsFile, shapesWanted, requested, cycle, provider,
                   besidesLoad>>

\* Lines 672-689: shapes.txt arrives and loadAllGTFSData resolves.
ShapesLoaded ==
    /\ loadPc = "shapes"
    /\ fetches["shapes.txt"] = "pending"
    /\ fetches' = [fetches EXCEPT !["shapes.txt"] = "ok"]
    /\ loaded' = [loaded EXCEPT
                      !.shapes = loadShapes(ShapesFile,
                                            shapeIdsOfTrips(loaded.trips))]
    /\ loadPc' = "resolved"
    /\ UNCHANGED <<tripsFile, shapesWanted, requested, cycle, provider,
                   besidesLoad>>

\* Part_000 lines 124-172: loadData goes on after its await, processes the
\* data and publishes it.
Published ==
    /\ loadPc = "resolved"
    /\ provider' = publish(provider, loaded, cycle)
    /\ loadPc' = "done"
    /\ UNCHANGED <<tripsFile, shapesWanted, fetches, requested, loaded, cycle,
                   besidesLoad>>

\* Part_000 lines 124-172: loadData goes on after its await and the
\* processing throws.
ProcessingThrows ==
    /\ loadPc = "resolved"
    /\ provider' = setRawDataOnly(provider, loaded)
    /\ loadPc' = "failed"
    /\ UNCHANGED <<tripsFile, shapesWanted, fetches, requested, loaded, cycle,
                   besidesLoad>>

\* A fetch that is awaited fails: parseGTFSFile throws (part_005 lines
\* 331-334 and 362-365), loadAllGTFSData rejects (lines 690-693) and the
\* catch and the finally of loadData run.  What else was in flight is no
\* longer awaited.
FetchFails ==
    \E file \in FeedFiles, failure \in Failures :
        /\ loadPc \in {"first-files", "trips", "stop-times", "shapes"}
        /\ fetches[file] = "pending"
        /\ fetches' = [f \in FeedFiles |->
                          IF f = file THEN "failed"
                          ELSE IF fetches[f] = "pending" THEN "abandoned"
                          ELSE fetches[f]]
        /\ provider' = catchAndFinally(provider,
                                       errorMessageOf(file, failure))
        /\ loadPc' = "failed"
        /\ UNCHANGED <<tripsFile, shapesWanted, requested, loaded, cycle,
                       besidesLoad>>

NextLoad ==
    \/ StartLoad
    \/ Reload
    \/ FirstFileArrives
    \/ FirstFilesLoaded
    \/ TripsLoaded
    \/ StopTimesLoaded
    \/ StopTimesLoadedLast
    \/ ShapesLoaded
    \/ Published
    \/ ProcessingThrows
    \/ FetchFails

SpecLoad == InitLoad /\ [][NextLoad]_vars

\* Some fetch of the running cycle has failed.
FetchFailed == \E file \in FeedFiles : fetches[file] = "failed"

\* What the provider has published.
PublishedData == <<provider.rawData, provider.routes, provider.schedules,
                   provider.publishedBy>>

\* The state a load cycle starts in: the first four files are requested,
\* routes.txt first, and nothing else is requested or loaded.
AtFirstFetch ==
    /\ loadPc = "first-files"
    /\ requested = FirstFiles
    /\ requested[1] = "routes.txt"
    /\ \A file \in FeedFiles :
          fetches[file] = IF file \in Range(FirstFiles) THEN "pending"
                          ELSE "none"
    /\ loaded = NothingLoaded
    /\ provider.loading
    /\ provider.error = <<>>

\* C19: a fetch that fails, by a network error or by a status that is not
\* ok, ends the load cycle: loadAllGTFSData has rejected (it never resolves
\* in that cycle), error is a message, loading is false and nothing of the
\* cycle is published; the step of the failure leaves the published data
\* alone; and every new cycle starts again at the first fetch.
C19_FetchFailureIsFatal ==
    /\ [](FetchFailed =>
            /\ loadPc = "failed"
            /\ provider.error # <<>>
            /\ provider.loading = FALSE
            /\ provider.publishedBy # cycle)
    /\ [][(~FetchFailed /\ FetchFailed') =>
            /\ PublishedData' = PublishedData
            /\ loaded' = loaded]_vars
    /\ [][FetchFailed => cycle' = cycle + 1]_vars
    /\ [][cycle' # cycle => AtFirstFetch']_vars

\* The load was invoked again after a failed cycle, and trips.txt failed in
\* the second cycle: nothing was ever published.
C19_Witness ==
    /\ cycle = 2
    /\ fetches["trips.txt"] = "failed"
    /\ provider.rawData = <<>>
    /\ provider.error # <<>>
    /\ provider.loading = FALSE

\* The file has been requested in the running cycle.
Requested(file) == fetches[file] # "none"

\* The ids that the rows of a loaded list carry in a field.
LoadedIds(rows, field) == {rows[i][field] : i \in 1..Len(rows)}

\* The place of a file in the order of the requests of the cycle, 0 when it
\* was not requested.
RequestIndex(file) ==
    IF \E i \in 1..Len(requested) : requested[i] = file
    THEN CHOOSE i \in 1..Len(requested) : requested[i] = file
    ELSE 0

\* C20: in every load cycle trips.txt is requested only when the load of
\* the routes has resolved, and stop_times.txt and shapes.txt only when the
\* load of the trips has resolved; and, the provider filtering, every
\* loaded trip has the id of a loaded route, every loaded stop time the id
\* of a loaded trip and every loaded shape point a shape id of a loaded
\* trip.
C20_LoadOrdering ==
    /\ Requested("trips.txt") =>
          /\ fetches["routes.txt"] = "ok"
          /\ loaded.routes = loadRoutes(RoutesFile, TRUE)
          /\ RequestIndex("routes.txt") < RequestIndex("trips.txt")
    /\ \A file \in {"stop_times.txt", "shapes.txt"} :
          Requested(file) =>
              /\ fetches["trips.txt"] = "ok"
              /\ RequestIndex("trips.txt") < RequestIndex(file)
    /\ \A file \in FeedFiles : Requested(file) <=> RequestIndex(file) > 0
    /\ LoadedIds(loaded.trips, "route_id")
           \subseteq LoadedIds(loaded.routes, "route_id")
    /\ LoadedIds(loaded.stopTimes, "trip_id")
           \subseteq LoadedIds(loaded.trips, "trip_id")
    /\ LoadedIds(loaded.shapes, "shape_id")
           \subseteq LoadedIds(loaded.trips, "shape_id")

\* A cycle with shapes has resolved on a trips.txt of three trips, two of
\* them of routes that were not loaded: one trip, its stop time and the
\* points of its shape are loaded.
C20_Witness ==
    /\ loadPc = "resolved"
    /\ shapesWanted
    /\ Len(tripsFile) = 3
    /\ Len(loaded.trips) = 1
    /\ Len(loaded.stopTimes) = 1
    /\ Len(loaded.shapes) = 2
    /\ requested[Len(requested)] = "shapes.txt"

-----------------------------------------------------------------------------
(* sunlight.ts: mapShapeToSchedule and calculateRouteSegmentColors.        *)
(*                                                                         *)
(* The coordinates of a path and of the stops of its trip lie on one       *)
(* meridian, at whole degrees of latitude.  There the haversine distance    *)
(* of calculateDistance is the radius times the difference of latitude,    *)
(* and a distance is counted in degrees of arc.  Numbers that need not be  *)
(* whole are fractions <<n, d>> in lowest terms; <<0, 0>> is NaN.  An      *)
(* instant is a number of milliseconds since the midnight of the date.     *)

\* Lines 32-45, for two coordinates of one longitude.
calculateDistance(coord1, coord2) ==
    IF coord1[1] >= coord2[1] THEN coord1[1] - coord2[1]
    ELSE coord2[1] - coord1[1]

\* Lines 74-84.
RECURSIVE calculateCumulativeDistances(_)
calculateCumulativeDistances(coords) ==
    IF Len(coords) = 0 THEN <<0>>
    ELSE IF Len(coords) = 1 THEN <<0>>
    ELSE LET front     == SubSeq(coords, 1, Len(coords) - 1)
             distances == calculateCumulativeDistances(front)
         IN  Append(distances,
                    distances[Len(distances)]
                        + calculateDistance(coords[Len(coords) - 1],
                                            coords[Len(coords)]))

NaNFraction == <<0, 0>>

IsNaN(fraction) == fraction[2] = 0

\* Lines 114-118: the Date of millis1 + (millis2 - millis1) * fraction.  A
\* Date keeps whole milliseconds; NaN gives the invalid Date.
interpolateTime(time1, time2, fraction) ==
    IF IsNaN(fraction) \/ time1 = NaN \/ time2 = NaN THEN NaN
    ELSE (time1 * fraction[2] + (time2 - time1) * fraction[1])
             \div fraction[2]

\* Lines 54-66 for coordinates that are fractions already.
interpolateFractions(coord1, coord2, fraction) ==
    [k \in 1..2 |->
        IF IsNaN(fraction) \/ IsNaN(coord1[k]) \/ IsNaN(coord2[k])
        THEN NaNFraction
        ELSE Ratio(coord1[k][1] * coord2[k][2] * fraction[2]
                       + (coord2[k][1] * coord1[k][2]
                              - coord1[k][1] * coord2[k][2]) * fraction[1],
                   coord1[k][2] * coord2[k][2] * fraction[2])]

\* A coordinate of whole numbers as a coordinate of fractions.
AsFractions(coord) == [k \in 1..2 |-> <<coord[k], 1>>]

\* The Date of gtfsTimeToDate, in milliseconds.
dateOf(timeString, dayOffset) == 1000 * gtfsTimeToDate(timeString, dayOffset)

\* Lines 313-321: the index of the path point closest to a stop, the first
\* of them when several are as close.
closestShapeIdx(coords, stop) ==
    Least({i \in 1..Len(coords) :
              \A j \in 1..Len(coords) :
                  calculateDistance(stop.coordinates, coords[i])
                      <= calculateDistance(stop.coordinates, coords[j])})

\* Lines 309-328.
stopShapeIndicesOf(coords, stops) ==
    [k \in 1..Len(stops) |->
        [stopIndex  |-> k,
         shapeIndex |-> closestShapeIdx(coords, stops[k]),
         distance   |-> calculateCumulativeDistances(coords)
                            [closestShapeIdx(coords, stops[k])]]]

\* Lines 335-347: the pairs of consecutive stops whose distances hold the
\* distance of a path point.
bracketsAt(mappings, shapeDistance) ==
    {i \in 1..(Len(mappings) - 1) :
        /\ mappings[i].distance <= shapeDistance
        /\ mappings[i + 1].distance >= shapeDistance}

beforeStopMappingOf(mappings, shapeDistance) ==
    IF bracketsAt(mappings, shapeDistance) = {} THEN mappings[1]
    ELSE mappings[Least(bracketsAt(mappings, shapeDistance))]

afterStopMappingOf(mappings, shapeDistance) ==
    IF bracketsAt(mappings, shapeDistance) = {} THEN mappings[Len(mappings)]
    ELSE mappings[Least(bracketsAt(mappings, shapeDistance)) + 1]

\* distanceFraction that divides whenever the distances differ.
distanceFractionOf_Unguarded(before, after, shapeDistance) ==
    IF after.distance # before.distance
    THEN Ratio((shapeDistance - before.distance)
                   * (IF after.distance < before.distance THEN -1 ELSE 1),
               IF after.distance < before.distance
               THEN before.distance - after.distance
               ELSE after.distance - before.distance)
    ELSE NaNFraction

\* Lines 357-361.
distanceFractionOf(before, after, shapeDistance) ==
    IF after.distance > before.distance
    THEN Ratio(shapeDistance - before.distance,
               after.distance - before.distance)
    ELSE <<0, 1>>

\* Lines 331-369: the time of a path point at shapeDistance along the path,
\* mappings being the stopShapeIndices.
timeOfShapePoint(stops, mappings, shapeDistance) ==
    LET before == beforeStopMappingOf(mappings, shapeDistance)
        after  == afterStopMappingOf(mappings, shapeDistance)
        beforeStop == stops[before.stopIndex]
        afterStop  == stops[after.stopIndex]
    IN  interpolateTime(
            dateOf(beforeStop.departureTime, beforeStop.dayOffset),
            dateOf(afterStop.arrivalTime, afterStop.dayOffset),
            distanceFractionOf(before, after, shapeDistance))

\* Lines 293-372.
mapShapeToSchedule(coords, stops) ==
    IF Len(coords) = 0 \/ Len(stops) < 2 THEN <<>>
    ELSE LET distances == calculateCumulativeDistances(coords)
             mappings  == stopShapeIndicesOf(coords, stops)
         IN  [shapeIdx \in 1..Len(coords) |->
                 [coord |-> coords[shapeIdx],
                  time  |-> timeOfShapePoint(stops, mappings,
                                             distances[shapeIdx])]]

\* Lines 412-426: the path and its time points.
pathCoordsOf(stops, coords) ==
    IF Len(coords) > 0 THEN coords
    ELSE [k \in 1..Len(stops) |-> stops[k].coordinates]

timePointsOf(stops, coords) ==
    IF Len(coords) > 0 THEN mapShapeToSchedule(coords, stops)
    ELSE [k \in 1..Len(stops) |->
             [coord |-> stops[k].coordinates,
              time  |-> dateOf(stops[k].departureTime, stops[k].dayOffset)]]

\* numSamples that is the requested count whatever the path.
numSamplesOf_Requested(samples, pathCoords) == samples

\* Line 438.
numSamplesOf(samples, pathCoords) ==
    IF samples <= Len(pathCoords) THEN samples ELSE Len(pathCoords)

\* Line 442, for the i-th pass of the loop (i from 0): 0 / 0 is NaN.
targetDistanceOf(i, numSamples, totalDistance) ==
    IF numSamples = 1 THEN NaNFraction
    ELSE Ratio(i * totalDistance, numSamples - 1)

\* Lines 445-457: the segments of the path that hold the target distance;
\* no comparison with NaN holds.
pathBracketsAt(distances, target) ==
    IF IsNaN(target) THEN {}
    ELSE {j \in 1..(Len(distances) - 1) :
             /\ distances[j] * target[2] <= target[1]
             /\ distances[j + 1] * target[2] >= target[1]}

beforeIdxOf(distances, target) ==
    IF pathBracketsAt(distances, target) = {} THEN 1
    ELSE Least(pathBracketsAt(distances, target))

afterIdxOf(distances, target) ==
    IF pathBracketsAt(distances, target) = {} THEN Len(distances)
    ELSE Least(pathBracketsAt(distances, target)) + 1

\* Lines 460-463.
segmentFractionOf(distances, target) ==
    LET beforeIdx == beforeIdxOf(distances, target)
        afterIdx  == afterIdxOf(distances, target)
        segmentDistance == distances[afterIdx] - distances[beforeIdx]
    IN  IF segmentDistance > 0
        THEN IF IsNaN(target) THEN NaNFraction
             ELSE Ratio(target[1] - distances[beforeIdx] * target[2],
                        segmentDistance * target[2])
        ELSE <<0, 1>>

\* Lines 441-473: the point sampled in the i-th pass of the loop.
sampledPointOf(pathCoords, timePts, distances, numSamples, i) ==
    LET target    == targetDistanceOf(i, numSamples,
                                      distances[Len(distances)])
        beforeIdx == beforeIdxOf(distances, target)
        afterIdx  == afterIdxOf(distances, target)
        fraction  == segmentFractionOf(distances, target)
    IN  [coord |-> interpolateFractions(AsFractions(pathCoords[beforeIdx]),
                                        AsFractions(pathCoords[afterIdx]),
                                        fraction),
         time  |-> interpolateTime(timePts[beforeIdx].time,
                                   timePts[afterIdx].time, fraction)]

\* Lines 438-473.
sampledPointsOf(pathCoords, timePts, samples) ==
    LET distances == calculateCumulativeDistances(pathCoords)
    IN  [k \in 1..numSamplesOf(samples, pathCoords) |->
            sampledPointOf(pathCoords, timePts, distances,
                           numSamplesOf(samples, pathCoords), k - 1)]

\* Lines 476-497.  The phase and the intensity of a segment are what
\* SunCalc gives at midCoord and midTime, which stand for them here.
segmentsOf(sampled) ==
    [k \in 1..(Len(sampled) - 1) |->
        [startCoord |-> sampled[k].coord,
         endCoord   |-> sampled[k + 1].coord,
         midCoord   |-> interpolateFractions(sampled[k].coord,
                                             sampled[k + 1].coord, <<1, 2>>),
         midTime    |-> interpolateTime(sampled[k].time, sampled[k + 1].time,
                                        <<1, 2>>)]]

-----------------------------------------------------------------------------
(* Inputs of calculateRouteSegmentColors: trips of one to MaxSegmentStops  *)
(* stops on the meridian, no shape or a shape of up to MaxPathPoints       *)
(* points, and no, one, two or MaxSamples samples.                         *)

MaxSegmentStops == 2

MaxPathPoints == 3

MaxSamples == 3

\* The meridian of the paths and the latitudes of their points.
PathCoordinates == {<<lat, -90>> : lat \in 0..2}

\* The arrival and the departure of the k-th stop of a trip: stops passed
\* every half hour from ten, stops halted at for five minutes every half
\* hour from ten, and stops all passed at ten.
SegmentTimings ==
    {[k \in 1..MaxSegmentStops |->
         << <<10 + (k - 1) \div 2, 30 * ((k - 1) % 2), 0>>,
            <<10 + (k - 1) \div 2, 30 * ((k - 1) % 2) + halt, 0>> >>] :
        halt \in {0, 5}}
    \cup {[k \in 1..MaxSegmentStops |-> << <<10, 0, 0>>, <<10, 0, 0>> >>]}

\* A stop as processSchedules makes it (gtfsProcessor.ts lines 389-398).
SegmentStopOf(k, place, timing) ==
    [TripStopOf(k, timing) EXCEPT !.coordinates = place]

SegmentTrips ==
    UNION {{[k \in 1..n |-> SegmentStopOf(k, places[k], timings[k])] :
               places \in [1..n -> PathCoordinates],
               timings \in SegmentTimings} :
           n \in 1..MaxSegmentStops}

SegmentShapes ==
    UNION {[1..n -> PathCoordinates] : n \in 0..MaxPathPoints}

InitSegments ==
    /\ segmentStops \in SegmentTrips
    /\ shapeCoords \in SegmentShapes
    /\ samplePoints \in {0, 1, 2, MaxSamples}
    /\ timePoints = <<>>
    /\ sampledPoints = <<>>
    /\ segments = <<>>
    /\ segmentsPc = "call"
    /\ IdleBesidesSegments

\* Lines 399-498, one call of calculateRouteSegmentColors; segmentsPc names
\* the way it took.  (The return of lines 428-431 is never taken: a trip of
\* two stops has time points on every path.)
Coloured(pc) ==
    /\ timePoints' = IF Len(segmentStops) < 2 THEN <<>>
                     ELSE timePointsOf(segmentStops, shapeCoords)
    /\ sampledPoints' =
           IF Len(segmentStops) < 2 \/ Len(timePoints') = 0 THEN <<>>
           ELSE sampledPointsOf(pathCoordsOf(segmentStops, shapeCoords),
                                timePoints', samplePoints)
    /\ segments' = segmentsOf(sampledPoints')
    /\ segmentsPc' = pc
    /\ UNCHANGED <<segmentStops, shapeCoords, samplePoints, besidesSegments>>

\* Lines 406-409.
SegmentsTooFewStops ==
    /\ segmentsPc = "call"
    /\ Len(segmentStops) < 2
    /\ Coloured("too-few-stops")

\* Lines 415-418 and 433-498: along the shape.
SegmentsAlongShape ==
    /\ segmentsPc = "call"
    /\ Len(segmentStops) >= 2
    /\ Len(shapeCoords) > 0
    /\ Coloured("along-shape")

\* Lines 419-426 and 433-498: along the stops.
SegmentsAlongStops ==
    /\ segmentsPc = "call"
    /\ Len(segmentStops) >= 2
    /\ Len(shapeCoords) = 0
    /\ Coloured("along-stops")

NextSegments ==
    \/ SegmentsTooFewStops
    \/ SegmentsAlongShape
    \/ SegmentsAlongStops

SpecSegments == InitSegments /\ [][NextSegments]_vars

\* calculateRouteSegmentColors has returned from a trip of two stops or
\* more.
SegmentsDone == segmentsPc \in {"along-shape", "along-stops"}

\* The path of the claims: the dense shape when there is one, else the
\* coordinates of the stops.
SegmentPath ==
    IF shapeCoords # <<>> THEN shapeCoords
    ELSE [k \in 1..Len(segmentStops) |-> segmentStops[k].coordinates]

\* N of the claims.
SampleCount ==
    IF samplePoints < Len(SegmentPath) THEN samplePoints
    ELSE Len(SegmentPath)

\* The length of the path from its start to its k-th point.
RECURSIVE LengthTo(_, _)
LengthTo(path, k) ==
    IF k <= 1 THEN 0
    ELSE LengthTo(path, k - 1)
             + (IF path[k][1] >= path[k - 1][1]
                THEN path[k][1] - path[k - 1][1]
                ELSE path[k - 1][1] - path[k][1])

\* The coordinates that lie at the distance n / d from the start of the
\* path, measured along the path.
PointsAtDistance(path, n, d) ==
    {<<Ratio(path[j][1] * d
                 + (IF path[j + 1][1] >= path[j][1] THEN 1 ELSE -1)
                       * (n - LengthTo(path, j) * d),
             d),
       <<path[j][2], 1>> >> :
        j \in {k \in 1..(Len(path) - 1) :
                  /\ LengthTo(path, k) * d <= n
                  /\ n <= LengthTo(path, k + 1) * d}}

\* C21: from a trip of two stops or more, the path being the shape when one
\* is given and the stops otherwise, calculateRouteSegmentColors samples
\* N = min(samplePoints, points of the path) points, the i-th of them
\* (i = 0..N-1) at i/(N-1) of the length of the path, and returns the N - 1
\* segments between consecutive samples; it returns none when N <= 1.
C21_SampleAndSegmentCount ==
    SegmentsDone =>
        /\ Len(sampledPoints) = SampleCount
        /\ Len(segments) = IF SampleCount <= 1 THEN 0 ELSE SampleCount - 1
        /\ SampleCount >= 2 =>
               \A i \in 0..(SampleCount - 1) :
                   sampledPoints[i + 1].coord \in
                       PointsAtDistance(SegmentPath,
                                        i * LengthTo(SegmentPath,
                                                     Len(SegmentPath)),
                                        SampleCount - 1)
        /\ \A k \in 1..Len(segments) :
               /\ segments[k].startCoord = sampledPoints[k].coord
               /\ segments[k].endCoord = sampledPoints[k + 1].coord

\* Three samples on a shape of three points whose middle sample is not a
\* point of the shape, and two segments.
C21_Witness ==
    /\ segmentsPc = "along-shape"
    /\ Len(shapeCoords) = 3
    /\ samplePoints = 3
    /\ Len(segments) = 2
    /\ sampledPoints[2].coord[1][2] = 2
    /\ segments[1].endCoord = sampledPoints[2].coord

-----------------------------------------------------------------------------
(* The calls of sunlight.ts together: a call of getTrainPositionAtTime or  *)
(* a call of calculateRouteSegmentColors.                                  *)

InitSunlight == InitPosition \/ InitSegments

NextSunlight == NextPosition \/ NextSegments

SpecSunlight == InitSunlight /\ [][NextSunlight]_vars

\* The anchored departure and arrival of the k-th stop of the trip of the
\* segments, in milliseconds.
DepartureOf(k) ==
    1000 * gtfsTimeToDate(segmentStops[k].departureTime,
                          segmentStops[k].dayOffset)

ArrivalOf(k) ==
    1000 * gtfsTimeToDate(segmentStops[k].arrivalTime,
                          segmentStops[k].dayOffset)

\* The distance along the shape of the point the k-th stop is snapped to:
\* the first of the points of the shape that are closest to the stop.
SnappedDistance(k) ==
    LET gap(p) == IF shapeCoords[p][1] >= segmentStops[k].coordinates[1]
                  THEN shapeCoords[p][1] - segmentStops[k].coordinates[1]
                  ELSE segmentStops[k].coordinates[1] - shapeCoords[p][1]
        closest == {p \in 1..Len(shapeCoords) :
                       \A q \in 1..Len(shapeCoords) : gap(p) <= gap(q)}
    IN  LengthTo(shapeCoords, Least(closest))

\* The stops that bracket the distance s along the shape: the first pair of
\* consecutive stops whose snapped distances hold s, and the first and the
\* last stop when no pair does.
BracketsOf(s) ==
    {k \in 1..(Len(segmentStops) - 1) :
        SnappedDistance(k) <= s /\ s <= SnappedDistance(k + 1)}

BracketStart(s) == IF BracketsOf(s) = {} THEN 1 ELSE Least(BracketsOf(s))

BracketEnd(s) ==
    IF BracketsOf(s) = {} THEN Len(segmentStops)
    ELSE Least(BracketsOf(s)) + 1

\* The first segment of the path that holds the distance n / d.
SegmentHolding(path, n, d) ==
    Least({k \in 1..(Len(path) - 1) :
              /\ LengthTo(path, k) * d <= n
              /\ n <= LengthTo(path, k + 1) * d})

\* C22: a denominator that is not positive gives the fraction 0 and the
\* start of the bracket, a number and not NaN: a leg of
\* getTrainPositionAtTime whose arrival is not after its departure gives
\* the coordinate of the stop the leg leaves; two bracketing stops of
\* mapShapeToSchedule snapped to one distance give the departure of the
\* first of them; a segment of no length and a path of no length in
\* calculateRouteSegmentColors give the point and the time the segment
\* starts with.
C22_DegenerateFractionZero ==
    /\ positionPc = "between-stops" =>
           LET i == Least(LegsHolding)
           IN  gtfsTimeToDate(tripStops[i + 1].arrivalTime,
                              tripStops[i + 1].dayOffset)
                   <= gtfsTimeToDate(tripStops[i].departureTime,
                                     tripStops[i].dayOffset) =>
                   /\ position # <<>>
                   /\ position[1].lat = <<tripStops[i].coordinates[1], 1>>
                   /\ position[1].lng = <<tripStops[i].coordinates[2], 1>>
    /\ segmentsPc = "along-shape" =>
           \A p \in 1..Len(shapeCoords) :
               LET s == LengthTo(shapeCoords, p)
               IN  SnappedDistance(BracketEnd(s))
                       <= SnappedDistance(BracketStart(s)) =>
                       timePoints[p].time = DepartureOf(BracketStart(s))
    /\ SegmentsDone /\ SampleCount >= 2 =>
           \A i \in 0..(SampleCount - 1) :
               LET n == i * LengthTo(SegmentPath, Len(SegmentPath))
                   d == SampleCount - 1
                   k == SegmentHolding(SegmentPath, n, d)
               IN  LengthTo(SegmentPath, k + 1) <= LengthTo(SegmentPath, k)
                       =>
                       /\ sampledPoints[i + 1].coord
                              = AsFractions(SegmentPath[k])
                       /\ sampledPoints[i + 1].time = timePoints[k].time
    /\ SegmentsDone /\ LengthTo(SegmentPath, Len(SegmentPath)) = 0 =>
           \A i \in 1..Len(sampledPoints) :
               /\ sampledPoints[i].coord = AsFractions(SegmentPath[1])
               /\ sampledPoints[i].time = timePoints[1].time

\* A shape of three points at one place, of no length: both stops are
\* snapped to its first point, and the three samples lie on it at the
\* departure of the first stop.
C22_Witness ==
    /\ segmentsPc = "along-shape"
    /\ Len(shapeCoords) = 3
    /\ LengthTo(shapeCoords, 3) = 0
    /\ SnappedDistance(1) = SnappedDistance(2)
    /\ DepartureOf(1) < ArrivalOf(2)
    /\ Len(sampledPoints) = 3
    /\ \A i \in 1..3 :
           /\ sampledPoints[i].coord = AsFractions(shapeCoords[1])
           /\ sampledPoints[i].time = DepartureOf(1)

-----------------------------------------------------------------------------
(* Claims on the instants of a trip (SpecPosition).                        *)

\* The anchored arrival and departure of the k-th stop of the trip.
ArrivalAt(k) ==
    gtfsTimeToDate(tripStops[k].arrivalTime, tripStops[k].dayOffset)

DepartureAt(k) ==
    gtfsTimeToDate(tripStops[k].departureTime, tripStops[k].dayOffset)

\* The anchored instants do not decrease along the trip.
InstantsNonDecreasing ==
    /\ \A k \in 1..Len(tripStops) : ArrivalAt(k) <= DepartureAt(k)
    /\ \A k \in 1..(Len(tripStops) - 1) : DepartureAt(k) <= ArrivalAt(k + 1)

\* The target lies in the halt at a stop that is neither the first nor the
\* last.
DwellingAt(k) ==
    /\ 1 < k /\ k < Len(tripStops)
    /\ ArrivalAt(k) < targetTime /\ targetTime < DepartureAt(k)

\* C23: for a trip of at least two stops whose anchored instants do not
\* decrease, getTrainPositionAtTime returns a position for every instant
\* from the first departure to the last arrival, the instants of a halt at
\* an intermediate stop among them.
C23_PositionForWholeTrip ==
    Answered /\ InstantsNonDecreasing
        /\ FirstDeparture <= targetTime /\ targetTime <= LastArrival =>
        position # <<>>

\* The example trip a second after the arrival at B: the train halts at B
\* until 10:35 and the answer is null.
C23_NullWhileDwelling ==
    /\ tripStops = ExampleTrip
    /\ targetTime = 37801
    /\ InstantsNonDecreasing
    /\ DwellingAt(2)
    /\ positionPc = "nowhere"
    /\ position = <<>>

\* The time a GTFS time text stands for, in seconds from the midnight the
\* trip starts after, hours of 24 and more counted in full.
ElapsedOf(text) ==
    LET parts == split(text, ":")
    IN  3600 * DecimalValue(parts[1]) + 60 * DecimalValue(parts[2])
            + DecimalValue(parts[3])

\* The time texts do not decrease along the trip.
TextsNonDecreasing ==
    /\ \A k \in 1..Len(tripStops) :
           ElapsedOf(tripStops[k].arrivalTime)
               <= ElapsedOf(tripStops[k].departureTime)
    /\ \A k \in 1..(Len(tripStops) - 1) :
           ElapsedOf(tripStops[k].departureTime)
               <= ElapsedOf(tripStops[k + 1].arrivalTime)

\* C24: a processed stop whose departure text is not earlier than its
\* arrival text has an anchored departure that is not earlier than its
\* anchored arrival; and a trip whose time texts do not decrease has
\* anchored instants that do not decrease.
C24_AnchoringPreservesOrder ==
    positionPc \notin {"idle", "call"} =>
        /\ \A k \in 1..Len(tripStops) :
               ElapsedOf(tripStops[k].arrivalTime)
                   <= ElapsedOf(tripStops[k].departureTime) =>
                   ArrivalAt(k) <= DepartureAt(k)
        /\ TextsNonDecreasing => InstantsNonDecreasing

\* A stop reached at 23:50:00 and left at 24:10:00 has the day offset 0 of
\* its arrival: its departure is anchored at 00:10:00 of the first day.
C24_DepartureADayEarly ==
    /\ positionPc \notin {"idle", "call"}
    /\ \E k \in 1..Len(tripStops) :
           /\ tripStops[k].arrivalTime = GTFSTimeText(<<23, 50, 0>>)
           /\ tripStops[k].departureTime = GTFSTimeText(<<24, 10, 0>>)
           /\ tripStops[k].dayOffset = 0
           /\ ArrivalAt(k) = 85800
           /\ DepartureAt(k) = 600

-----------------------------------------------------------------------------
(* Claims on what applyRouteMerges keeps (SpecMerge).                      *)

\* The places <<route id, position>> of a schedule map that hold the trip
\* id.
PlacesOfTrip(sched, tripId) ==
    {place \in SchedulePlaces(sched) :
        sched[place[1]][place[2]].tripId = tripId}

\* The trip ids of a schedule map.
TripIdsIn(sched) ==
    {sched[place[1]][place[2]].tripId : place \in SchedulePlaces(sched)}

\* The groups the call has merged.
MergedGroups ==
    {mergeLog[i] : i \in {k \in 1..Len(mergeLog) :
                             mergeLog[k].said = "merging"}}

\* C25: when applyRouteMerges has returned, every trip id is held as many
\* times across the schedule buckets as it was when the call started, and
\* every trip is a trip of the start with, at most, another routeId.
C25_MergingConservesTrips ==
    mergePc = "done" =>
        /\ \A tripId \in TripIdsIn(schedulesIn) \cup TripIdsIn(schedules) :
               Cardinality(PlacesOfTrip(schedules, tripId))
                   = Cardinality(PlacesOfTrip(schedulesIn, tripId))
        /\ \A place \in SchedulePlaces(schedules) :
               \E old \in SchedulePlaces(schedulesIn) :
                   [schedules[place[1]][place[2]] EXCEPT !.routeId = "any"]
                       = [schedulesIn[old[1]][old[2]]
                              EXCEPT !.routeId = "any"]

\* Every merged group names each of its routes once and has its primary
\* among them.
MergedGroupsWellFormed ==
    \A group \in MergedGroups :
        /\ \A i, j \in 1..Len(group.routeIds) :
               i # j => group.routeIds[i] # group.routeIds[j]
        /\ group.primary \in Range(group.routeIds)

\* Trips are conserved when the merged groups are well formed.
TripsConservedByWellFormedGroups ==
    MergedGroupsWellFormed => C25_MergingConservesTrips

\* A group that names route 42957 twice was merged: its one trip is held
\* twice.
C25_TripDuplicated ==
    /\ mergePc = "done"
    /\ \E group \in MergedGroups : group.routeIds = <<"42957", "42957">>
    /\ Cardinality(PlacesOfTrip(schedulesIn, <<"42957", 1>>)) = 1
    /\ Cardinality(PlacesOfTrip(schedules, <<"42957", 1>>)) = 2

\* A group of 42957 and 72 was merged under the designated primary 56: the
\* trip route 56 had is held no more.
C25_TripLost ==
    /\ mergePc = "done"
    /\ \E group \in MergedGroups :
           group.routeIds = <<"42957", "72">> /\ group.primary = "56"
    /\ Cardinality(PlacesOfTrip(schedulesIn, <<"56", 1>>)) = 1
    /\ PlacesOfTrip(schedules, <<"56", 1>>) = {}

\* The route ids that are members of a merged group, and those of them
\* that are not its primary.
MergedMembers == UNION {Range(group.routeIds) : group \in MergedGroups}

RemovedMembers ==
    UNION {Range(group.routeIds) \ {group.primary} : group \in MergedGroups}

\* The routes of the input that survive, in the order of the input.
SurvivingRoutes ==
    SelectSeq(routes, LAMBDA r : r.routeId \notin RemovedMembers)

\* C26: the returned catalog holds the surviving routes in the order of the
\* input, every route that is no member of a merged group as it was; every
\* schedule bucket whose key is no member of a merged group is as it was;
\* and the routes array given to the call is never written.
C26_MergeFrame ==
    /\ [](mergePc = "done" =>
            /\ Len(mergedRoutes) = Len(SurvivingRoutes)
            /\ \A i \in 1..Len(mergedRoutes) :
                   /\ mergedRoutes[i].routeId = SurvivingRoutes[i].routeId
                   /\ SurvivingRoutes[i].routeId \notin MergedMembers =>
                          mergedRoutes[i] = SurvivingRoutes[i]
            /\ \A id \in (DOMAIN schedulesIn \cup DOMAIN schedules)
                             \ MergedMembers :
                   /\ MapHas(schedulesIn, id) /\ MapHas(schedules, id)
                   /\ schedules[id] = schedulesIn[id])
    /\ [][routes' = routes]_vars

\* The frame holds when every merged group has its primary among its
\* route ids.
FrameOfWellFormedGroups ==
    /\ [](MergedGroupsWellFormed => 
            (mergePc = "done" =>
                /\ Len(mergedRoutes) = Len(SurvivingRoutes)
                /\ \A i \in 1..Len(mergedRoutes) :
                       /\ mergedRoutes[i].routeId = SurvivingRoutes[i].routeId
                       /\ SurvivingRoutes[i].routeId \notin MergedMembers =>
                              mergedRoutes[i] = SurvivingRoutes[i]
                /\ \A id \in (DOMAIN schedulesIn \cup DOMAIN schedules)
                                 \ MergedMembers :
                       /\ MapHas(schedulesIn, id) /\ MapHas(schedules, id)
                       /\ schedules[id] = schedulesIn[id]))
    /\ [][routes' = routes]_vars

\* A group of 42957 and 72 was merged under the designated primary 56, which
\* is no member of it: the entry and the bucket of route 56 are not what
\* they were.
C26_BystanderReplaced ==
    /\ mergePc = "done"
    /\ \E group \in MergedGroups :
           group.routeIds = <<"42957", "72">> /\ group.primary = "56"
    /\ \E i \in 1..Len(routes) : routes[i] = ProcessedRouteOf("56")
    /\ \A i \in 1..Len(mergedRoutes) :
           mergedRoutes[i] # ProcessedRouteOf("56")
    /\ MapHas(schedulesIn, "56")
    /\ schedules["56"] # schedulesIn["56"]

\* ---------------------------------------------------------------------
\* C27: simplification keeps the end points and the order.

RECURSIVE IsSubsequence(_, _)
\* The points of part are points of whole, in the same relative order.
IsSubsequence(part, whole) ==
    IF part = <<>> THEN TRUE
    ELSE IF whole = <<>> THEN FALSE
    ELSE IF Head(part) = Head(whole)
    THEN IsSubsequence(Tail(part), Tail(whole))
    ELSE IsSubsequence(part, Tail(whole))

\* C27: for a list of at least 2 points and a tolerance >= 0 the result of
\* simplifyShape is a subsequence of the list, has at least 2 points and
\* has the first and the last point of the list at its ends; a list of at
\* most 2 points is returned as it is.
C27_SimplificationKeepsEndsAndOrder ==
    SimplifyDone /\ pathTolerance[1] >= 0 =>
        /\ Len(shapePath) >= 2 =>
               /\ IsSubsequence(simplified, shapePath)
               /\ Len(simplified) >= 2
               /\ simplified[1] = shapePath[1]
               /\ simplified[Len(simplified)] = shapePath[Len(shapePath)]
        /\ Len(shapePath) <= 2 => simplified = shapePath

\* C27 witness: a split that keeps one inner point and drops another.
C27_Witness ==
    /\ simplifyPc = "split"
    /\ Len(shapePath) = 4
    /\ Len(simplified) = 3
    /\ IsSubsequence(simplified, shapePath)
    /\ simplified[1] = shapePath[1]
    /\ simplified[3] = shapePath[4]

\* ---------------------------------------------------------------------
\* simplifyShape call by call (gtfsProcessor.ts 450-484): every call of
\* the function is a frame of callStack, and a step is the part of a call
\* between two calls or returns.

\* Line 475: coordinates.slice(0, maxIndex + 1).
leftArgument(coordinates, maxIndex) ==
    SubSeq(coordinates, 1, maxIndex)

\* The argument of the second call taken from the first point on.
rightArgument_FromFirst(coordinates, maxIndex) == coordinates

\* Line 476: coordinates.slice(maxIndex).
rightArgument(coordinates, maxIndex) ==
    SubSeq(coordinates, maxIndex, Len(coordinates))

\* A call that has just been entered, with its locals: maxIndex and
\* maxDistance are those of the loop of lines 458-471 (0 for a list of at
\* most 2 points, which returns before the loop), left is not yet bound.
Frame(coordinates) ==
    [coordinates |-> coordinates,
     maxIndex    |-> IF Len(coordinates) <= 2 THEN 0
                     ELSE maxIndexOf(coordinates),
     maxDistance |-> IF Len(coordinates) <= 2 THEN <<0, 1>>
                     ELSE maxDistanceOf(coordinates),
     awaits      |-> "none",
     left        |-> <<>>]

\* Line 474: maxDistance > tolerance.
Splits(call) == Greater(call.maxDistance, Square(callTolerance))

TopCall == callStack[Len(callStack)]

Callers == SubSeq(callStack, 1, Len(callStack) - 1)

InCall == callPc = "running" /\ callStack # <<>>

MaxCallPoints == 4    \* points of the outermost list

CallPoints == {<<0, 0>>, <<1, 0>>, <<2, 0>>, <<1, 1>>}

CallPaths == UNION {[1..n -> CallPoints] : n \in 0..MaxCallPoints}

InitCalls ==
    /\ callPath \in CallPaths
    /\ callTolerance \in {<<0, 1>>, <<1, 1>>}
    /\ callStack = <<Frame(callPath)>>
    /\ returned = <<>>
    /\ deepest = 0
    /\ callPc = "running"
    /\ IdleBesidesRecursion

\* Lines 454-456.
ReturnShort ==
    /\ InCall
    /\ TopCall.awaits = "none"
    /\ Len(TopCall.coordinates) <= 2
    /\ callStack' = Callers
    /\ returned' = <<TopCall.coordinates>>
    /\ UNCHANGED <<callPath, callTolerance, deepest, callPc, besidesRecursion>>

\* Lines 458-474 and 480-483.
ReturnEndpoints ==
    /\ InCall
    /\ TopCall.awaits = "none"
    /\ Len(TopCall.coordinates) > 2
    /\ ~Splits(TopCall)
    /\ callStack' = Callers
    /\ returned' = << <<TopCall.coordinates[1],
                        TopCall.coordinates[Len(TopCall.coordinates)]>> >>
    /\ UNCHANGED <<callPath, callTolerance, deepest, callPc, besidesRecursion>>

\* Lines 458-475: the call for the left part.
CallLeft ==
    /\ InCall
    /\ TopCall.awaits = "none"
    /\ Len(TopCall.coordinates) > 2
    /\ Splits(TopCall)
    /\ callStack' = Callers
           \o <<[TopCall EXCEPT !.awaits = "left"],
                Frame(leftArgument(TopCall.coordinates,
                                   TopCall.maxIndex))>>
    /\ deepest' = IF Len(callStack) > deepest THEN Len(callStack) ELSE deepest
    /\ UNCHANGED <<callPath, callTolerance, returned, callPc,
                   besidesRecursion>>

\* Lines 475-476: left is bound and the call for the right part is made.
CallRight ==
    /\ InCall
    /\ TopCall.awaits = "left"
    /\ returned # <<>>
    /\ callStack' = Callers
           \o <<[TopCall EXCEPT !.awaits = "right", !.left = returned[1]],
                Frame(rightArgument(TopCall.coordinates,
                                    TopCall.maxIndex))>>
    /\ returned' = <<>>
    /\ deepest' = IF Len(callStack) > deepest THEN Len(callStack) ELSE deepest
    /\ UNCHANGED <<callPath, callTolerance, callPc, besidesRecursion>>

\* Lines 476-479: right is bound and the two results are joined.
ReturnJoined ==
    /\ InCall
    /\ TopCall.awaits = "right"
    /\ returned # <<>>
    /\ callStack' = Callers
    /\ returned' = <<SubSeq(TopCall.left, 1, Len(TopCall.left) - 1)
                         \o returned[1]>>
    /\ UNCHANGED <<callPath, callTolerance, deepest, callPc, besidesRecursion>>

\* The outermost call has returned to its caller.
CallReturned ==
    /\ callPc = "running"
    /\ callStack = <<>>
    /\ callPc' = "done"
    /\ UNCHANGED <<callPath, callTolerance, callStack, returned, deepest,
                   besidesRecursion>>

NextCalls ==
    \/ ReturnShort
    \/ ReturnEndpoints
    \/ CallLeft
    \/ CallRight
    \/ ReturnJoined
    \/ CallReturned

SpecCalls == InitCalls /\ [][NextCalls]_vars

\* A call runs to its next call or return: the function is synchronous
\* code of one thread, nothing can hold a step back.
SpecCallsFair == SpecCalls /\ WF_vars(NextCalls)

\* Every call on the stack has a shorter list than the call that made it.
ShorterThanCaller ==
    \A k \in 2..Len(callStack) :
        Len(callStack[k].coordinates) < Len(callStack[k - 1].coordinates)

\* The split index of every call that has split is inside its list.
SplitInside ==
    \A k \in 1..Len(callStack) :
        callStack[k].awaits # "none" =>
            /\ callStack[k].maxIndex > 1
            /\ callStack[k].maxIndex < Len(callStack[k].coordinates)

\* The calls return what the function is defined to return.
CallsComputeSimplifyShape ==
    callPc = "done" => returned = <<simplifyShape(callPath, callTolerance)>>

\* C28 (as claimed): simplifyShape terminates; each recursive call has a
\* strictly shorter list than its caller, the split index being strictly
\* between the first and the last index, and for a list of n points at most
\* n - 2 recursive calls are nested.
C28_TerminatesWithinDepth ==
    /\ [](ShorterThanCaller /\ SplitInside)
    /\ [](deepest <= Len(callPath) - 2)
    /\ <>(callPc = "done")

\* C28 (amended): the same with a depth of at most n - 2 for a list of at
\* least 2 points and no recursive call at all for a shorter list.
C28_TerminatesWithinDepthOfLongLists ==
    /\ [](ShorterThanCaller /\ SplitInside)
    /\ [](deepest <= IF Len(callPath) >= 2 THEN Len(callPath) - 2 ELSE 0)
    /\ <>(callPc = "done")

\* C28 witness: a list of four points simplified with two nested recursive
\* calls, every point kept.
C28_Witness ==
    /\ callPc = "done"
    /\ Len(callPath) = 4
    /\ deepest = 2
    /\ returned = <<callPath>>

\* ---------------------------------------------------------------------
\* C29: the times mapShapeToSchedule gives to the points of a shape.

MappedAlongShape == segmentsPc = "along-shape"

LastStop == Len(segmentStops)

\* The time point p lies within the trip.
InsideTrip(p) ==
    /\ DepartureOf(1) <= timePoints[p].time
    /\ timePoints[p].time <= ArrivalOf(LastStop)

\* C29: for a trip of at least 2 stops with non-decreasing instants and a
\* non-empty shape, every time mapShapeToSchedule assigns lies between the
\* departure of the first stop and the arrival of the last one, and a point
\* at the snapped distance of a stop has the time of that stop.
C29_ShapeTimesInsideTrip ==
    MappedAlongShape =>
        /\ \A p \in 1..Len(timePoints) : InsideTrip(p)
        /\ \A p \in 1..Len(timePoints) : \A k \in 1..LastStop :
               LengthTo(shapeCoords, p) = SnappedDistance(k) =>
                   timePoints[p].time \in {ArrivalOf(k), DepartureOf(k)}

\* What does hold: a point between the snapped distances of two
\* consecutive stops has a time inside the trip.
BracketedTimesInsideTrip ==
    MappedAlongShape =>
        \A p \in 1..Len(timePoints) :
            BracketsOf(LengthTo(shapeCoords, p)) # {} => InsideTrip(p)

\* A point of the shape ahead of the point the first stop is snapped to has
\* a time before the departure from the first stop.
C29_TimeBeforeDeparture ==
    /\ MappedAlongShape
    /\ SnappedDistance(1) < SnappedDistance(LastStop)
    /\ \E p \in 1..Len(timePoints) :
           /\ LengthTo(shapeCoords, p) < SnappedDistance(1)
           /\ timePoints[p].time < DepartureOf(1)

\* Two stops snapped to one point of the shape: the point has the departure
\* time of the first of them, which is no time of the second.
C29_SnappedTogether ==
    /\ MappedAlongShape
    /\ SnappedDistance(1) = SnappedDistance(2)
    /\ \E p \in 1..Len(timePoints) :
           /\ LengthTo(shapeCoords, p) = SnappedDistance(2)
           /\ timePoints[p].time = DepartureOf(1)
           /\ timePoints[p].time \notin {ArrivalOf(2), DepartureOf(2)}

\* ---------------------------------------------------------------------
\* GTFSDataProvider with calls of loadData that overlap (part_000 lines
\* 109-177, part_005 lines 632-694).  loadData has no guard against a call
\* that is still awaiting its files: every call goes its own way through
\* loadAllGTFSData and sets the state of the provider when it gets there.
\* The files on the server are well formed and the same for every call.

MaxInFlight == 2    \* calls of loadData of one provider

\* A call of loadData: the loadShapes its closure holds, what it awaits (or
\* how it ended), what its loaders have returned, whether an earlier call
\* was still awaiting when it was made, and its rank among the calls that
\* have ended (0 while it runs).
LoadCall(wanted, overlapping) ==
    [loadShapes |-> wanted, pc |-> "first-files", loaded |-> NothingLoaded,
     overlapped |-> overlapping, ended |-> 0]

Awaiting(call) == call.pc \in {"first-files", "trips", "stop-times", "shapes"}

Running(call) == call.ended = 0

\* The files a call awaits.
AwaitedFiles(call) ==
    IF call.pc = "first-files" THEN Range(FirstFiles)
    ELSE IF call.pc = "trips" THEN {"trips.txt"}
    ELSE IF call.pc = "stop-times" THEN {"stop_times.txt"}
    ELSE IF call.pc = "shapes" THEN {"shapes.txt"}
    ELSE {}

NumberEnded == Cardinality({c \in 1..Len(inFlight) : ~Running(inFlight[c])})

\* Part_000 lines 101-106.
InitOverlap ==
    /\ servedTrips \in TripsFiles
    /\ inFlight = <<>>
    /\ shown = [loading |-> TRUE, error |-> <<>>, rawData |-> <<>>,
                routes |-> <<>>, schedules |-> <<>>, publishedBy |-> 0]
    /\ IdleBesidesOverlap

\* Part_000 lines 109-122: setLoading(true), setError(null) and the call of
\* loadAllGTFSData, which requests the first four files.
loadDataCalled(wanted) ==
    /\ inFlight' = Append(inFlight,
                          LoadCall(wanted,
                                   \E c \in 1..Len(inFlight) :
                                       Running(inFlight[c])))
    /\ shown' = [shown EXCEPT !.loading = TRUE, !.error = <<>>]
    /\ UNCHANGED <<servedTrips, besidesOverlap>>

\* Part_000 lines 175-177: the effect after mounting.
MountEffect ==
    \E wanted \in BOOLEAN :
        /\ inFlight = <<>>
        /\ loadDataCalled(wanted)

\* The effect after loadShapes has changed (lines 175-177), refresh (line
\* 251) or Retry (line 233), whether or not an earlier call has ended.
LoadDataAgain ==
    \E wanted \in BOOLEAN :
        /\ inFlight # <<>>
        /\ Len(inFlight) < MaxInFlight
        /\ loadDataCalled(wanted)

\* Part_005 lines 646-657: the first four files of a call have arrived.
CallFirstFiles ==
    \E c \in 1..Len(inFlight) :
        /\ inFlight[c].pc = "first-files"
        /\ inFlight' = [inFlight EXCEPT
               ![c].loaded.routes = loadRoutes(RoutesFile, TRUE),
               ![c].pc = "trips"]
        /\ UNCHANGED <<servedTrips, shown, besidesOverlap>>

\* Lines 657-664.
CallTrips ==
    \E c \in 1..Len(inFlight) :
        /\ inFlight[c].pc = "trips"
        /\ inFlight' = [inFlight EXCEPT
               ![c].loaded.trips =
                   loadTrips(servedTrips, routeIdsOf(inFlight[c].loaded.routes)),
               ![c].pc = "stop-times"]
        /\ UNCHANGED <<servedTrips, shown, besidesOverlap>>

\* Lines 664-672, and 689 when the call loads no shapes.
CallStopTimes ==
    \E c \in 1..Len(inFlight) :
        /\ inFlight[c].pc = "stop-times"
        /\ inFlight' = [inFlight EXCEPT
               ![c].loaded.stopTimes =
                   loadStopTimes(StopTimesFile,
                                 tripIdsOf(inFlight[c].loaded.trips)),
               ![c].pc = IF inFlight[c].loadShapes THEN "shapes"
                         ELSE "resolved"]
        /\ UNCHANGED <<servedTrips, shown, besidesOverlap>>

\* Lines 672-689.
CallShapes ==
    \E c \in 1..Len(inFlight) :
        /\ inFlight[c].pc = "shapes"
        /\ inFlight' = [inFlight EXCEPT
               ![c].loaded.shapes =
                   loadShapes(ShapesFile,
                              shapeIdsOfTrips(inFlight[c].loaded.trips)),
               ![c].pc = "resolved"]
        /\ UNCHANGED <<servedTrips, shown, besidesOverlap>>

\* Part_000 lines 124-172: the call goes on after its await, processes its
\* data and sets the state of the provider.
CallPublishes ==
    \E c \in 1..Len(inFlight) :
        /\ inFlight[c].pc = "resolved"
        /\ shown' = publish(shown, inFlight[c].loaded, c)
        /\ inFlight' = [inFlight EXCEPT ![c].pc = "done",
                                        ![c].ended = NumberEnded + 1]
        /\ UNCHANGED <<servedTrips, besidesOverlap>>

\* A fetch the call awaits fails: part_005 lines 690-693 and part_000 lines
\* 165-172.
CallFetchFails ==
    \E c \in 1..Len(inFlight), failure \in Failures :
      \E file \in AwaitedFiles(inFlight[c]) :
        /\ Awaiting(inFlight[c])
        /\ shown' = catchAndFinally(shown, errorMessageOf(file, failure))
        /\ inFlight' = [inFlight EXCEPT ![c].pc = "failed",
                                        ![c].ended = NumberEnded + 1]
        /\ UNCHANGED <<servedTrips, besidesOverlap>>

NextOverlap ==
    \/ MountEffect
    \/ LoadDataAgain
    \/ CallFirstFiles
    \/ CallTrips
    \/ CallStopTimes
    \/ CallShapes
    \/ CallPublishes
    \/ CallFetchFails

SpecOverlap == InitOverlap /\ [][NextOverlap]_vars

\* What the provider publishes, and what it publishes of the data of a call.
ShownData == <<shown.rawData, shown.routes, shown.schedules>>

DataOf(call) ==
    <<<<call.loaded>>, routeIdsOf(call.loaded.routes),
      tripIdsOf(call.loaded.trips)>>

AllPublished ==
    /\ Len(inFlight) >= 2
    /\ \A c \in 1..Len(inFlight) : inFlight[c].pc = "done"

LastStarted == inFlight[Len(inFlight)]

\* C30: when a call of loadData is made while an earlier one is still in
\* flight and all of them have completed, the provider publishes the data
\* of the call made last, in whatever order the calls completed.
C30_LastStartedWins ==
    AllPublished /\ LastStarted.overlapped => ShownData = DataOf(LastStarted)

\* What does hold: the provider publishes the data of the call that
\* completed last.
LastCompletedWins ==
    AllPublished =>
        \A c \in 1..Len(inFlight) :
            inFlight[c].ended = Len(inFlight) => ShownData = DataOf(inFlight[c])

\* A call that loads the shapes is overtaken by a later call that does not:
\* the provider ends with the data of the earlier call, shapes included.
C30_EarlierCallPublishedLast ==
    /\ AllPublished
    /\ LastStarted.overlapped
    /\ inFlight[1].loadShapes /\ ~LastStarted.loadShapes
    /\ inFlight[1].ended = Len(inFlight)
    /\ shown.publishedBy = 1
    /\ ShownData = DataOf(inFlight[1])
    /\ ShownData # DataOf(LastStarted)

====
